---- MODULE Spec2Model ----
(***************************************************************************)
(* Season simulator (frontend/src/features/season-simulator-v2): the       *)
(* zustand store, the league loop hook (useSimulationLoop), the match      *)
(* result generator, the standings aggregator and the playoff bracket.     *)
(*                                                                         *)
(* Representation notes.                                                   *)
(*  - A Team is its id (1..NumTeams); names are functions of the id.       *)
(*    0 stands for undefined/null wherever the code tests truthiness of an *)
(*    id (winner_id, toss_winner_id); -1 stands for an undefined score.    *)
(*  - The LCG draw seedState/233280 is kept as the integer seedState; each *)
(*    comparison or floor of a draw is done exactly on integers.           *)
(*  - overs are kept in tenths of an over (the code rounds to 1 decimal).  *)
(*  - net_run_rate is kept as an exact fraction [num, den].                *)
(***************************************************************************)
EXTENDS Integers, Sequences, FiniteSets, TLC

VARIABLES
  store,    \* the zustand state object (simulationStore.ts)
  gen,      \* one call of generateRealisticMatchResult: inputs and output
  agg,      \* calls of updateStandings on one match list: outputs
  call,     \* the last direct call of a store action: its name and argument
  tries,    \* resolutions of one prepared match: the match and the outcomes
  top,      \* one call of updateTopPerformers: the match list and the output
  loop,     \* useSimulationLoop refs: isProcessingRef, timerRef, effect cleanup
  preps,    \* prepareMatch calls in flight
  resos,    \* resolution timer callbacks in flight
  fetches,  \* fetchTeamsOnly calls in flight
  playoff,  \* PlayoffMatch predictMatch runs and their completion timers
  final,    \* the FinalMatch instance: winnerRef, timers, predictMatch runs
  timers,   \* pending onComplete timers of the closing screens
  events,   \* user inputs and late responses so far
  last      \* the handler that made the last step ("...Again" where the
            \* same handler ran twice in a row on a new request)

vars == <<store, gen, agg, call, tries, top, loop, preps, resos, fetches, playoff, final,
          timers, events, last>>
appVars == <<loop, preps, resos, fetches, playoff, final, timers, events, last>>

\* ------------------------------------------------------------------ bounds
NumTeams == 4
MaxMatchId == 12
MaxLeague == 2

\* ------------------------------------------------------- program constants
LcgMul == 9301
LcgInc == 49297
LcgMod == 233280
DefaultVenueAvg == 165
DefaultHomeWinProb == 50
OversPerInnings == 20
MinFirstInnings == 100
MaxFirstInnings == 250

Undef == -1
NoTeam == 0

\* the element of a one-element set (the set's expression is evaluated once)
TheOne(S) == CHOOSE x \in S : TRUE

Min2(a, b) == IF a < b THEN a ELSE b
Max2(a, b) == IF a > b THEN a ELSE b

\* ------------------------------------------------------------- seeded LCG
\* seedState = ((seedState * 9301) + 49297) % 233280, computed without
\* leaving the 32-bit range of the checker (9301 = 93 * 100 + 1).
seededRandom(s) ==
  LET r  == s % LcgMod
      hi == ((r * (LcgMul \div 100)) % LcgMod) * 100
      lo == r * (LcgMul % 100)
  IN  (hi + lo + LcgInc) % LcgMod

\* Math.floor(base + draw * span)
FloorDraw(base, span, s) == base + ((span * s) \div LcgMod)

\* Math.round((base + draw * span) * 10): overs in tenths
RoundOvers10(base, span, s) ==
  base * 10 + ((2 * 10 * span * s + LcgMod) \div (2 * LcgMod))

\* draw < 0.5, draw < 0.6, draw < 0.02, draw * 100 < p
DrawBelowHalf(s) == 2 * s < LcgMod
DrawBelowSixTenthsAsHalf(s) == 10 * s < 5 * LcgMod
DrawBelowSixTenths(s) == 10 * s < 6 * LcgMod
DrawBelowTwoPercent(s) == 100 * s < 2 * LcgMod
DrawTimes100Below(s, p) == 100 * s < p * LcgMod

\* --------------------------------------------------------- MatchResult
NoToss == [present |-> FALSE, toss_winner_id |-> NoTeam, toss_decision |-> "bat"]

Innings(t, r, w, o) == [team_id |-> t, runs |-> r, wickets |-> w, overs10 |-> o]

\* "result: undefined"
NoResultPayload ==
  [present |-> FALSE, toss_winner_id |-> NoTeam,
   toss_decision |-> "bat",
   winner_id |-> NoTeam,
   margin |-> [n |-> 0, unit |-> ""],
   first_innings |-> Innings(NoTeam, 0, 0, 0), second_innings |-> Innings(NoTeam, 0, 0, 0)]

\* Math.round(venueAvgScore * teamStrength * (0.85 + draw * 0.3)), with
\* teamStrength = 0.9 + (p / 100) * 0.3; exactly
\* round(avg * (300 + p) * (660960 + s) / 259200000).
FirstInningsRaw(avg, p, s) ==
  LET a  == avg * (300 + p)
      b  == 660960 + s
      bh == b \div 1000
      bl == b % 1000
  IN  (a * bh + 129600 + ((a * bl) \div 1000)) \div 259200

venueAvgScore(avg) == IF avg = 0 THEN DefaultVenueAvg ELSE avg

ClampFirstInnings(r) == Max2(MinFirstInnings, Min2(MaxFirstInnings, r))

\* Variant of DefendedRuns in which the shortfall is added.
DefendedRunsAdded(first, shortfall) == first + shortfall

DefendedRuns(first, shortfall) == first - shortfall

\* generateRealisticMatchResult.  seed0 is the state of the seededRandom
\* closure at the call; existingToss is options.existingTossResult.
generateRealisticMatchResult(homeId, awayId, homeProb, awayProb, determinedWinner, venueAvg, seed0, existingToss) ==
  LET t1 == seededRandom(seed0)
      t2 == seededRandom(t1)
      tossWinner ==
        IF existingToss.present
        THEN (IF existingToss.toss_winner_id = homeId THEN "home" ELSE "away")
        ELSE (IF DrawBelowHalf(t1) THEN "home" ELSE "away")
      tossDecision ==
        IF existingToss.present THEN existingToss.toss_decision
        ELSE (IF DrawBelowSixTenths(t2) THEN "bat" ELSE "bowl")
      sA == IF existingToss.present THEN seed0 ELSE t2
      homeFirst == \/ (tossWinner = "home" /\ tossDecision = "bat")
                   \/ (tossWinner = "away" /\ tossDecision = "bowl")
      firstId  == IF homeFirst THEN homeId ELSE awayId
      secondId == IF homeFirst THEN awayId ELSE homeId
      strengthProb == IF firstId = homeId THEN homeProb ELSE awayProb
      s1 == seededRandom(sA)
      firstInningsRuns == FirstInningsRaw(venueAvgScore(venueAvg), strengthProb, s1)
      clamped == ClampFirstInnings(firstInningsRuns)
      s2 == seededRandom(s1)
      firstWickets == FloorDraw(4, 5, s2)
      s3 == IF firstWickets = 10 THEN seededRandom(s2) ELSE s2
      firstOvers10 == IF firstWickets = 10 THEN RoundOvers10(15, 4, s3)
                      ELSE OversPerInnings * 10
      winnerIsSecondBatting ==
        \/ (determinedWinner = "home" /\ secondId = homeId)
        \/ (determinedWinner = "away" /\ secondId = awayId)
      s4 == seededRandom(s3)
      s5 == seededRandom(s4)
      s6 == seededRandom(s5)
      runMargin == FloorDraw(1, 15, s4)
      chaseWickets == FloorDraw(4, 5, s5)
      chaseOvers10 == IF runMargin > 30 THEN RoundOvers10(16, 3, s6)
                      ELSE IF runMargin > 15 THEN RoundOvers10(18, 2, s6)
                      ELSE RoundOvers10(19, 1, s6)
      shortfall == FloorDraw(5, 30, s4)
      defendWickets == FloorDraw(6, 4, s5)
  IN  [present |-> TRUE,
       toss_winner_id |-> IF tossWinner = "home" THEN homeId ELSE awayId,
       toss_decision |-> tossDecision,
       winner_id |-> IF determinedWinner = "home" THEN homeId ELSE awayId,
       margin |-> IF winnerIsSecondBatting
                  THEN [n |-> 10 - chaseWickets, unit |-> "wicket"]
                  ELSE [n |-> shortfall, unit |-> "run"],
       first_innings |-> Innings(firstId, clamped, firstWickets, firstOvers10),
       second_innings |->
         IF winnerIsSecondBatting
         THEN Innings(secondId, clamped + runMargin, chaseWickets, chaseOvers10)
         ELSE Innings(secondId, DefendedRuns(clamped, shortfall), defendWickets,
                      OversPerInnings * 10)]

\* ------------------------------------------------------------ Match, store

\* null / undefined where a Match is expected
NullMatch ==
  [winner_id |-> NoTeam, id |-> 0, home_team_id |-> NoTeam,
   away_team_id |-> NoTeam, completed |-> FALSE, match_type |-> "league",
   no_result |-> FALSE, home_score |-> Undef, away_score |-> Undef,
   home_win_probability |-> DefaultHomeWinProb,
   prediction_data |-> [present |-> FALSE, home_win_probability |-> 0], result |-> NoResultPayload]

IsMatch(m) == m.id # 0

\* arr[i] for a 0-based JavaScript index; undefined out of range
At(arr, i) == IF i >= 0 /\ i < Len(arr) THEN arr[i + 1] ELSE NullMatch

\* Variant of MergeAt in which the guard on existingMatch.completed is missing.
MergeAtOverwrite(existingMatch, newMatch) ==
  IF ~IsMatch(newMatch) THEN existingMatch ELSE newMatch

\* one iteration of the merge loop shared by setMatches and updateMatchComplete
MergeAt(existingMatch, newMatch) ==
  IF ~IsMatch(newMatch) THEN existingMatch
  ELSE IF ~IsMatch(existingMatch) THEN newMatch
  ELSE IF existingMatch.completed THEN existingMatch
  ELSE newMatch

MergeMatches(existing, new) ==
  LET maxLength == Max2(Len(existing), Len(new))
  IN  SelectSeq([i \in 1..maxLength |->
                   MergeAt(At(existing, i - 1), At(new, i - 1))], IsMatch)

InitialStore ==
  [phase |-> "INTRO", matches |-> <<>>, standings |-> <<>>,
   playoffTeams |-> <<>>, champion |-> NoTeam,
   semifinal1Winner |-> NoTeam, semifinal1Loser |-> NoTeam,
   semifinal2Winner |-> NoTeam, semifinal2Loser |-> NoTeam,
   eliminatorWinner |-> NoTeam,
   currentMatchIndex |-> 0, currentMatch |-> NullMatch,
   currentPlayoffPhase |-> "null",
   isPlaying |-> FALSE, isPaused |-> FALSE, speedMultiplier |-> 1,
   showPreMatchOverlay |-> FALSE, preMatchStage |-> "null",
   isPreparingMatch |-> FALSE]

setMatches(st, new) == [st EXCEPT !.matches = MergeMatches(st.matches, new)]

updateMatchComplete(st, newStandings, newIndex, new) ==
  LET merged == MergeMatches(st.matches, new)
  IN  [st EXCEPT !.standings = newStandings,
                 !.currentMatchIndex = newIndex,
                 !.matches = merged,
                 !.currentMatch = At(merged, newIndex)]

\* ------------------------------------------------------ standings aggregator
FracEq(a, b) == a.num * b.den = b.num * a.den
FracLess(a, b) == a.num * b.den < b.num * a.den

ZeroStats ==
  [no_result |-> 0, matches |-> 0, wins |-> 0, losses |-> 0,
   runs_scored |-> 0, runs_conceded |-> 0, overs_faced |-> 0, overs_bowled |-> 0]

\* one completed league match folded into the counters of team t
\* (home side first, then away side, as the forEach body does)
AddHome(s, m) ==
  LET s1 == [s EXCEPT !.matches = @ + 1]
      s2 == IF m.home_score # Undef
            THEN [s1 EXCEPT !.runs_scored = @ + m.home_score,
                            !.overs_faced = @ + OversPerInnings] ELSE s1
      s3 == IF m.away_score # Undef
            THEN [s2 EXCEPT !.runs_conceded = @ + m.away_score,
                            !.overs_bowled = @ + OversPerInnings] ELSE s2
  IN  IF m.no_result THEN [s3 EXCEPT !.no_result = @ + 1]
      ELSE IF m.winner_id = NoTeam THEN s3
      ELSE IF m.winner_id = m.home_team_id THEN [s3 EXCEPT !.wins = @ + 1]
      ELSE [s3 EXCEPT !.losses = @ + 1]

AddAway(s, m) ==
  LET s1 == [s EXCEPT !.matches = @ + 1]
      s2 == IF m.home_score # Undef
            THEN [s1 EXCEPT !.runs_conceded = @ + m.home_score,
                            !.overs_bowled = @ + OversPerInnings] ELSE s1
      s3 == IF m.away_score # Undef
            THEN [s2 EXCEPT !.runs_scored = @ + m.away_score,
                            !.overs_faced = @ + OversPerInnings] ELSE s2
  IN  IF m.no_result THEN [s3 EXCEPT !.no_result = @ + 1]
      ELSE IF m.winner_id = NoTeam THEN s3
      ELSE IF m.winner_id = m.home_team_id THEN [s3 EXCEPT !.losses = @ + 1]
      ELSE [s3 EXCEPT !.wins = @ + 1]

RECURSIVE TeamStatsOf(_, _, _)
TeamStatsOf(t, ms, k) ==
  IF k = 0 THEN ZeroStats
  ELSE LET prev == TeamStatsOf(t, ms, k - 1)
           m == ms[k]
           h == IF m.home_team_id = t THEN AddHome(prev, m) ELSE prev
       IN  IF m.away_team_id = t THEN AddAway(h, m) ELSE h

\* Variant of PointsOf in which a no-result earns nothing.
PointsOfWinsOnly(stats) == stats.wins * 2

\* Variant of PointsOf in which a win is worth 3 points.
PointsOfThreeForWin(stats) == stats.wins * 3 + stats.no_result * 1

PointsOf(stats) == stats.wins * 2 + stats.no_result * 1

NetRunRate(stats) ==
  LET forN == IF stats.overs_faced > 0 THEN stats.runs_scored ELSE 0
      forD == IF stats.overs_faced > 0 THEN stats.overs_faced ELSE 1
      agN  == IF stats.overs_bowled > 0 THEN stats.runs_conceded ELSE 0
      agD  == IF stats.overs_bowled > 0 THEN stats.overs_bowled ELSE 1
  IN  [num |-> forN * agD - agN * forD, den |-> forD * agD]

StandingRow(teamId, pos, stats, playoffP, champP) ==
  [team_id |-> teamId, no_result |-> stats.no_result,
   wins |-> stats.wins, losses |-> stats.losses,
   position |-> pos, matches_played |-> stats.matches,
   points |-> PointsOf(stats), net_run_rate |-> NetRunRate(stats),
   playoff_probability |-> playoffP, championship_probability |-> champP]

\* Variant of TeamOrder that collects the home sides only.
RECURSIVE TeamOrderHomeOnly(_, _)
TeamOrderHomeOnly(ms, k) ==
  IF k = 0 THEN <<>>
  ELSE LET prev == TeamOrderHomeOnly(ms, k - 1)
       IN  IF \E i \in 1..Len(prev) : prev[i] = ms[k].home_team_id THEN prev
           ELSE Append(prev, ms[k].home_team_id)

\* order of first insertion into the teamIds Set (home before away)
RECURSIVE TeamOrder(_, _)
TeamOrder(ms, k) ==
  IF k = 0 THEN <<>>
  ELSE LET prev == TeamOrder(ms, k - 1)
           seen(seq, t) == \E i \in 1..Len(seq) : seq[i] = t
           a == IF seen(prev, ms[k].home_team_id) THEN prev
                ELSE Append(prev, ms[k].home_team_id)
       IN  IF seen(a, ms[k].away_team_id) THEN a
           ELSE Append(a, ms[k].away_team_id)

\* the comparator's sign is negative: a is placed before b
\* Variant of SortsBefore with net run rate ascending.
SortsBeforeNrrAscending(a, b) ==
  IF b.points # a.points THEN b.points < a.points
  ELSE IF ~FracEq(b.net_run_rate, a.net_run_rate)
       THEN FracLess(a.net_run_rate, b.net_run_rate)
  ELSE b.wins < a.wins

SortsBefore(a, b) ==
  IF b.points # a.points THEN b.points < a.points
  ELSE IF ~FracEq(b.net_run_rate, a.net_run_rate)
       THEN FracLess(b.net_run_rate, a.net_run_rate)
  ELSE b.wins < a.wins

\* Variant of InsertStable (an unstable sort): a row goes before the rows
\* it ties with.
InsertBeforeTies(sorted, x) ==
  LET firstNotBefore ==
        IF \E i \in 1..Len(sorted) : ~SortsBefore(sorted[i], x)
        THEN CHOOSE i \in 1..Len(sorted) :
               /\ ~SortsBefore(sorted[i], x)
               /\ \A j \in 1..(i - 1) : SortsBefore(sorted[j], x)
        ELSE Len(sorted) + 1
  IN  SubSeq(sorted, 1, firstNotBefore - 1) \o <<x>>
        \o SubSeq(sorted, firstNotBefore, Len(sorted))

\* stable insertion: x goes before the first row it strictly precedes
InsertStable(sorted, x) ==
  LET firstAfter ==
        IF \E i \in 1..Len(sorted) : SortsBefore(x, sorted[i])
        THEN CHOOSE i \in 1..Len(sorted) :
               /\ SortsBefore(x, sorted[i])
               /\ \A j \in 1..(i - 1) : ~SortsBefore(x, sorted[j])
        ELSE Len(sorted) + 1
  IN  SubSeq(sorted, 1, firstAfter - 1) \o <<x>>
        \o SubSeq(sorted, firstAfter, Len(sorted))

\* Array.prototype.sort (stable) with the comparator of updateStandings
RECURSIVE SortStandings(_, _)
SortStandings(rows, k) ==
  IF k = 0 THEN <<>>
  ELSE TheOne({InsertStable(sorted, rows[k]) :
                 sorted \in {SortStandings(rows, k - 1)}})

WithPositions(rows) == [i \in 1..Len(rows) |-> [rows[i] EXCEPT !.position = i]]

\* Variant of IsCompletedLeague that also takes playoff matches.
IsCompletedAnyType(m) == m.completed

IsCompletedLeague(m) == m.completed /\ m.match_type = "league"

\* teamStats.get(id)! is undefined for a team that is not a key of the map:
\* homeStats.matches++ then throws a TypeError.
StandingsThrows(updatedMatches, currentStandings) ==
  /\ Len(currentStandings) > 0
  /\ \E i \in 1..Len(updatedMatches) :
       /\ IsCompletedLeague(updatedMatches[i])
       /\ \E t \in {updatedMatches[i].home_team_id, updatedMatches[i].away_team_id} :
            \A j \in 1..Len(currentStandings) : currentStandings[j].team_id # t

\* updateStandings(updatedMatches), reading currentStandings from the store.
\* Defined where StandingsThrows is false.
updateStandings(updatedMatches, currentStandings) ==
  LET completedMatches == SelectSeq(updatedMatches, IsCompletedLeague)
      stats(t) == TeamStatsOf(t, completedMatches, Len(completedMatches))
      order == TeamOrder(updatedMatches, Len(updatedMatches))
      rows == IF Len(currentStandings) = 0
              THEN [i \in 1..Len(order) |-> StandingRow(order[i], 0, stats(order[i]), 0, 0)]
              ELSE [i \in 1..Len(currentStandings) |->
                      StandingRow(currentStandings[i].team_id,
                                  currentStandings[i].position,
                                  stats(currentStandings[i].team_id),
                                  currentStandings[i].playoff_probability,
                                  currentStandings[i].championship_probability)]
  IN  TheOne({WithPositions(sorted) :
                sorted \in {SortStandings(r, Len(r)) : r \in {rows}}})

\* fetchTeamsOnly: initialStandings built from the team list
initialStandings(teams) ==
  [i \in 1..Len(teams) |-> StandingRow(teams[i], i, ZeroStats, 0, 0)]

\* ------------------------------------------------- match list constructors
LeagueMatch(i, h, a) ==
  [NullMatch EXCEPT !.id = i, !.home_team_id = h, !.away_team_id = a]

Completed(m, winner, hs, as, nr) ==
  [m EXCEPT !.completed = TRUE, !.winner_id = winner, !.no_result = nr,
            !.home_score = hs, !.away_score = as]

\* the refs of useSimulationLoop after the hook's first render
LoopIdle ==
  [isProcessingRef |-> FALSE, hasCleanup |-> FALSE,
   timerRef |-> [m |-> NullMatch, speedMultiplier |-> 1, pending |-> FALSE]]

FinalIdle ==
  [runs |-> {}, mounted |-> FALSE, team1 |-> NoTeam, team2 |-> NoTeam,
   winnerRef |-> NoTeam, timer |-> FALSE]

TimersIdle == [champion |-> 0, qualification |-> 0, trophy |-> 0, rewind |-> 0, rewindAtEnd |-> FALSE]

FetchesIdle == [mount |-> FALSE, start |-> FALSE]

\* nothing of the application is running (used where only a pure function
\* is exercised)
AppQuiet ==
  /\ loop = LoopIdle /\ preps = {} /\ resos = {} /\ fetches = FetchesIdle
  /\ playoff = {} /\ final = FinalIdle /\ timers = TimersIdle
  /\ events = 0 /\ last = "init"

GenIdle == [homeProb |-> 0, determinedWinner |-> "home", existingToss |-> NoToss,
            id |-> 0, out |-> NoResultPayload, called |-> FALSE]
TriesIdle == [m |-> NullMatch, out |-> <<>>, lookup |-> <<>>]
CallIdle == [matches |-> <<>>, op |-> "none", before |-> <<>>]
AggIdle == [prev |-> <<>>, out |-> <<>>, calls |-> 0, threw |-> FALSE,
            committed |-> FALSE]

TopIdle == [matches |-> <<>>, out |-> [present |-> FALSE], called |-> FALSE]

\* ======================================================================
\* SpecGen: generateRealisticMatchResult applied to bounded inputs
\* ======================================================================
GenTeams == <<1, 2>>
InitGen ==
  /\ store = InitialStore
  /\ AppQuiet
  /\ agg = AggIdle /\ call = CallIdle /\ top = TopIdle /\ tries = TriesIdle
  /\ gen \in {[GenIdle EXCEPT !.id = i, !.homeProb = p,
                              !.determinedWinner = w, !.existingToss = t] :
                i \in 1..MaxMatchId, p \in 0..100,
                w \in {"home", "away"},
                t \in {NoToss} \cup
                  {[present |-> TRUE, toss_winner_id |-> tw, toss_decision |-> d] :
                     tw \in {GenTeams[1], GenTeams[2]}, d \in {"bat", "bowl"}}}

GenCall ==
  /\ ~gen.called
  /\ gen' = [gen EXCEPT
       !.called = TRUE,
       !.out = generateRealisticMatchResult(GenTeams[1], GenTeams[2], gen.homeProb,
                 100 - gen.homeProb, gen.determinedWinner, 0, gen.id,
                 gen.existingToss)]
  /\ UNCHANGED <<store, agg, call, tries, top, appVars>>

NextGen == GenCall

SpecGen == InitGen /\ [][NextGen]_vars

\* ======================================================================
\* SpecAgg: updateStandings applied to bounded match lists
\* ======================================================================
MaxAgg == 3
MaxAggCalls == 3

AggMatch(i, pr, kind) ==
  LET m == LeagueMatch(i, pr[1], pr[2])
  IN  CASE kind = "open"  -> m
        [] kind = "home"  -> Completed(m, pr[1], 160, 150, FALSE)
        [] kind = "away"  -> Completed(m, pr[2], 150, 160, FALSE)
        [] kind = "nr"    -> Completed(m, NoTeam, Undef, Undef, TRUE)
        [] kind = "api"   -> Completed(m, pr[1], Undef, Undef, FALSE)
        [] kind = "final" -> [Completed(m, pr[1], 170, 150, FALSE)
                                EXCEPT !.match_type = "final"]

InitAgg ==
  /\ gen = GenIdle
  /\ AppQuiet
  /\ agg = AggIdle /\ call = CallIdle /\ top = TopIdle /\ tries = TriesIdle
  /\ \E l \in UNION {[1..n -> {<<1, 2>>, <<2, 3>>, <<3, 1>>} \X
                              {"open", "home", "away", "nr", "api", "final"}] :
                      n \in 0..MaxAgg}
               \cup {<<<<<<1, 2>>, k>>, <<<<3, 4>>, "open">>, <<<<5, 6>>, "open">>>> :
                       k \in {"home", "away"}},
        st \in {<<>>, initialStandings(<<1, 2, 3>>),
                initialStandings(<<3, 1, 2>>), initialStandings(<<1, 2>>)} :
       store = [InitialStore EXCEPT
                  !.matches = [i \in 1..Len(l) |-> AggMatch(i, l[i][1], l[i][2])],
                  !.standings = st]

\* a call that returns
AggCall ==
  /\ agg.calls < MaxAggCalls
  /\ ~agg.threw
  /\ ~StandingsThrows(store.matches, store.standings)
  /\ agg' = [agg EXCEPT !.prev = agg.out, !.calls = @ + 1,
                        !.out = updateStandings(store.matches, store.standings)]
  /\ UNCHANGED <<store, gen, call, tries, top, appVars>>

\* a call that throws the TypeError
AggThrow ==
  /\ agg.calls < MaxAggCalls
  /\ ~agg.threw
  /\ StandingsThrows(store.matches, store.standings)
  /\ agg' = [agg EXCEPT !.threw = TRUE]
  /\ UNCHANGED <<store, gen, call, tries, top, appVars>>

\* the store's standings are replaced by the last output (setStandings)
AggCommit ==
  /\ agg.calls >= 1
  /\ agg.calls < MaxAggCalls
  /\ store.standings # agg.out
  /\ store' = [store EXCEPT !.standings = agg.out]
  /\ agg' = [agg EXCEPT !.committed = TRUE]
  /\ UNCHANGED <<gen, call, tries, top, appVars>>

NextAgg == AggCall \/ AggThrow \/ AggCommit

SpecAgg == InitAgg /\ [][NextAgg]_vars

\* ======================================================================
\* SpecStore: setMatches and updateMatchComplete called directly with
\* bounded argument arrays
\* ======================================================================
MaxStoreLen == 2

StoreOpen == LeagueMatch(1, 1, 2)
\* an array element: undefined (a hole or null), the open match 1, two
\* different fabricated completions of match 1, or a no-result of match 2
StoreArrays ==
  UNION {[1..n ->
            {NullMatch, StoreOpen,
             [Completed(StoreOpen, 1, 160, 150, FALSE) EXCEPT !.result =
                generateRealisticMatchResult(1, 2, 70, 30, "home", 0, 1, NoToss)],
             [Completed(StoreOpen, 2, 150, 171, FALSE) EXCEPT !.result =
                generateRealisticMatchResult(1, 2, 30, 70, "away", 0, 1, NoToss)],
             Completed(LeagueMatch(2, 2, 1), NoTeam, Undef, Undef, TRUE)}] :
         n \in 0..MaxStoreLen}

InitStore ==
  /\ store = InitialStore
  /\ AppQuiet
  /\ gen = GenIdle /\ agg = AggIdle /\ call = CallIdle /\ top = TopIdle /\ tries = TriesIdle

StoreSetMatches ==
  \E new \in StoreArrays :
    /\ store' = setMatches(store, new)
    /\ call' = [matches |-> new, op |-> "setMatches", before |-> store.matches]
    /\ UNCHANGED <<gen, agg, tries, top, appVars>>

StoreUpdateMatchComplete ==
  \E new \in StoreArrays, idx \in 0..MaxStoreLen, std \in {<<>>, initialStandings(<<1, 2>>)} :
    /\ store' = updateMatchComplete(store, std, idx, new)
    /\ call' = [matches |-> new, op |-> "updateMatchComplete",
                before |-> store.matches]
    /\ UNCHANGED <<gen, agg, tries, top, appVars>>

NextStore == StoreSetMatches \/ StoreUpdateMatchComplete

SpecStore == InitStore /\ [][NextStore]_vars

\* ======================================================================
\* Spec: the simulator page (SeasonSimulatorV2), its league loop and its
\* playoff and closing screens
\* ======================================================================
MaxEvents == 1

\* SimulationPhase, in the order of its declaration
PhaseRank(p) ==
  LET PhaseOrder ==
        <<"INTRO", "FIXTURE_REVEAL", "LEAGUE", "QUALIFICATION", "PLAYOFFS",
          "FINAL", "CHAMPION", "TROPHY", "REWIND", "ANALYTICS">>
  IN  CHOOSE i \in 1..Len(PhaseOrder) : PhaseOrder[i] = p

\* What the backend answers: the team list, the fixtures of the season and
\* the home win probability of a prediction.
Probs == {0, 70}
FixtureId(i) == CASE i = 1 -> 7 [] i = 2 -> 20 [] OTHER -> 10 + i
ApiFixtures ==
  [i \in 1..MaxLeague |->
     LeagueMatch(FixtureId(i), ((2 * i - 2) % NumTeams) + 1,
                 ((2 * i - 1) % NumTeams) + 1)]

\* c with the least copy number k that is free in S: calls in flight are a
\* multiset
Fresh(S, c) ==
  [c EXCEPT !.k = CHOOSE k \in 1..(Cardinality(S) + 1) :
                     /\ [c EXCEPT !.k = k] \notin S
                     /\ \A j \in 1..(k - 1) : [c EXCEPT !.k = j] \in S]

\* const a = [...arr]; a[i] = v
ArrayAssign(arr, i, v) ==
  IF i < Len(arr) THEN [arr EXCEPT ![i + 1] = v]
  ELSE arr \o [j \in 1..(i - Len(arr)) |-> NullMatch] \o <<v>>

TimerIdle == [m |-> NullMatch, speedMultiplier |-> 1, pending |-> FALSE]

\* The body of the league effect, run on the rendered store with the refs as
\* its cleanups left them.  prep is the match handed to prepareMatch, if any.
LeagueEffectBody(st, lp) ==
  LET matchFromArray == At(st.matches, st.currentMatchIndex)
      off == [lp EXCEPT !.hasCleanup = FALSE]
      quiet == [store |-> st, loop |-> off, prep |-> NullMatch]
  IN  IF st.phase # "LEAGUE" \/ Len(st.matches) = 0 THEN quiet
      ELSE IF /\ IsMatch(matchFromArray)
              /\ ~matchFromArray.completed
              /\ ~matchFromArray.prediction_data.present
              /\ ~lp.isProcessingRef
      THEN [store |-> [st EXCEPT !.isPreparingMatch = TRUE],
            loop |-> [off EXCEPT !.isProcessingRef = TRUE],
            prep |-> matchFromArray]
      ELSE IF ~st.isPlaying \/ st.isPaused THEN quiet
      ELSE IF lp.isProcessingRef THEN quiet
      ELSE IF IsMatch(matchFromArray) /\ ~matchFromArray.completed
      THEN [store |-> [st EXCEPT !.currentMatch = matchFromArray],
            loop |-> [isProcessingRef |-> TRUE, hasCleanup |-> TRUE,
                      timerRef |-> [m |-> matchFromArray,
                                    speedMultiplier |-> st.speedMultiplier,
                                    pending |-> TRUE]],
            prep |-> NullMatch]
      ELSE quiet

\* One render of useSimulationLoop after the store went from o to n:
\* the currentMatch memo, the cleanups of the effects whose dependencies
\* changed, then the league effect.  matchesSet: the matches array was
\* replaced (a new array identity).
RenderLoop(o, n, matchesSet, lp) ==
  LET phaseChanged == o.phase # n.phase
      memoChanged == matchesSet \/ o.currentMatchIndex # n.currentMatchIndex
      match == At(n.matches, n.currentMatchIndex)
      n1 == IF memoChanged /\ IsMatch(match) /\ n.currentMatch.id # match.id
            THEN [n EXCEPT !.currentMatch = match] ELSE n
      depsChanged == \/ phaseChanged \/ memoChanged
                     \/ o.isPlaying # n.isPlaying \/ o.isPaused # n.isPaused
                     \/ o.speedMultiplier # n.speedMultiplier
      lp1 == IF depsChanged /\ lp.hasCleanup
             THEN [lp EXCEPT !.timerRef = TimerIdle, !.isProcessingRef = FALSE]
             ELSE lp
      lp2 == IF phaseChanged
             THEN [lp1 EXCEPT !.timerRef = TimerIdle, !.isProcessingRef = FALSE]
             ELSE lp1
  IN  IF depsChanged THEN LeagueEffectBody(n1, lp2)
      ELSE [store |-> n1, loop |-> lp, prep |-> NullMatch]

\* ---------------------------------------------------------------- screens
\* The PLAYOFFS branch of the page's render: the fixture that is mounted and
\* its two teams ("none" where the branch returns null).
PlayoffScreen(st) ==
  IF st.phase # "PLAYOFFS" \/ Len(st.playoffTeams) < 4
  THEN [team1 |-> NoTeam, team2 |-> NoTeam, fixture |-> "none"]
  ELSE IF st.currentPlayoffPhase = "semifinal_1"
  THEN [team1 |-> st.playoffTeams[1], team2 |-> st.playoffTeams[2],
        fixture |-> "semifinal_1"]
  ELSE IF st.currentPlayoffPhase = "semifinal_2"
  THEN [team1 |-> st.playoffTeams[3], team2 |-> st.playoffTeams[4],
        fixture |-> "semifinal_2"]
  ELSE IF /\ st.currentPlayoffPhase = "eliminator"
          /\ st.semifinal1Loser # NoTeam /\ st.semifinal2Winner # NoTeam
  THEN [team1 |-> st.semifinal1Loser, team2 |-> st.semifinal2Winner,
        fixture |-> "eliminator"]
  ELSE IF /\ st.currentPlayoffPhase = "final"
          /\ st.semifinal1Winner # NoTeam /\ st.eliminatorWinner # NoTeam
  THEN [team1 |-> st.semifinal1Winner, team2 |-> st.eliminatorWinner,
        fixture |-> "final"]
  ELSE [team1 |-> NoTeam, team2 |-> NoTeam, fixture |-> "none"]

\* The effects of the mounted screen after a render of the page.  Every
\* render makes new handler functions, so an effect that lists onComplete in
\* its dependencies runs again on every render.
RenderScreens(n, pl, fn, tm) ==
  LET scr == PlayoffScreen(n)
      run == [k |-> 1, winner |-> NoTeam,
              team1 |-> scr.team1, team2 |-> scr.team2, fixture |-> scr.fixture, pc |-> "predict"]
      frun == [k |-> 1, team1 |-> scr.team1, team2 |-> scr.team2]
  IN  [playoff |->
         IF scr.fixture \in {"semifinal_1", "semifinal_2", "eliminator"}
         THEN pl \cup {Fresh(pl, run)} ELSE pl,
       final |->
         IF scr.fixture # "final" THEN FinalIdle
         ELSE IF fn.mounted
         THEN [fn EXCEPT !.team1 = scr.team1, !.team2 = scr.team2,
                         !.timer = TRUE, !.runs = @ \cup {Fresh(@, frun)}]
         ELSE [runs |-> {frun}, mounted |-> TRUE, team1 |-> scr.team1,
               team2 |-> scr.team2, winnerRef |-> NoTeam, timer |-> TRUE],
       timers |->
         [champion |-> IF n.phase = "CHAMPION" /\ n.champion # NoTeam
                       THEN tm.champion + 1 ELSE tm.champion,
          qualification |-> IF n.phase = "QUALIFICATION"
                            THEN tm.qualification + 1 ELSE tm.qualification,
          trophy |-> IF n.phase = "TROPHY" /\ n.champion # NoTeam
                     THEN tm.trophy + 1 ELSE tm.trophy,
          rewind |-> IF n.phase = "REWIND" /\ tm.rewindAtEnd
                     THEN tm.rewind + 1 ELSE tm.rewind,
          rewindAtEnd |-> n.phase = "REWIND" /\ tm.rewindAtEnd]]

\* A handler has left the store at n0: the page renders and its effects run.
Commit(n0, matchesSet, lp, ps, rs, pl, fn, tm, op) ==
  \E n \in {n0} :
  \E r \in {RenderLoop(store, n, matchesSet, lp)} :
  \E s \in {RenderScreens(r.store, pl, fn, tm)} :
    /\ store' = r.store
    /\ loop' = r.loop
    /\ preps' = IF IsMatch(r.prep)
                THEN ps \cup {Fresh(ps, [speedMultiplier |-> r.store.speedMultiplier, k |-> 1,
                                         match |-> r.prep, pc |-> "fetch",
                                         upd |-> NullMatch])}
                ELSE ps
    /\ resos' = IF store.phase # n.phase THEN {c \in rs : c.pc # "raf"} ELSE rs
    /\ playoff' = s.playoff
    /\ final' = s.final
    /\ timers' = s.timers
    /\ last' = op

\* A handler that made no store update: nothing renders.
NoRender(lp, ps, rs, op) ==
  /\ loop' = lp /\ preps' = ps /\ resos' = rs /\ last' = op
  /\ UNCHANGED <<store, playoff, final, timers>>

\* ------------------------------------------------------- store actions
setPhase(st, p) == [st EXCEPT !.phase = p]
\* Variant of resumeSimulation that sets isPlaying and leaves isPaused alone.
resumeSimulationKeepsPaused(st) == [st EXCEPT !.isPlaying = TRUE]
startSimulation(st) == [st EXCEPT !.isPlaying = TRUE, !.isPaused = FALSE]
pauseSimulation(st) == [st EXCEPT !.isPaused = TRUE, !.isPlaying = FALSE]
resumeSimulation(st) == [st EXCEPT !.isPaused = FALSE, !.isPlaying = TRUE]
setSpeed(st, s) == [st EXCEPT !.speedMultiplier = s]
setStandings(st, rows) == [st EXCEPT !.standings = rows]
setCurrentMatch(st, m) == [st EXCEPT !.currentMatch = m]

IsLeague(m) == m.match_type = "league"

skipToPlayoffs(st) ==
  [st EXCEPT !.currentMatchIndex = Len(SelectSeq(st.matches, IsLeague)),
             !.phase = "QUALIFICATION"]

skipToFinal(st) ==
  [st EXCEPT !.currentMatchIndex = Len(SelectSeq(st.matches, IsLeague)),
             !.phase = "PLAYOFFS"]

reset(st) ==
  [st EXCEPT !.phase = "INTRO", !.matches = <<>>, !.standings = <<>>,
             !.playoffTeams = <<>>, !.champion = NoTeam,
             !.semifinal1Winner = NoTeam, !.semifinal1Loser = NoTeam,
             !.semifinal2Winner = NoTeam, !.semifinal2Loser = NoTeam,
             !.eliminatorWinner = NoTeam, !.currentMatchIndex = 0,
             !.currentMatch = NullMatch, !.currentPlayoffPhase = "null",
             !.isPlaying = FALSE, !.isPaused = FALSE]

startPreMatchSequence(st) ==
  [st EXCEPT !.showPreMatchOverlay = TRUE, !.preMatchStage = "toss",
             !.isPreparingMatch = FALSE]
setPreMatchStage(st, stage) == [st EXCEPT !.preMatchStage = stage]
completePreMatchSequence(st) ==
  [st EXCEPT !.showPreMatchOverlay = FALSE, !.preMatchStage = "null"]
setIsPreparingMatch(st, b) == [st EXCEPT !.isPreparingMatch = b]

\* ------------------------------------------------------------- the page
Init ==
  /\ store = InitialStore
  /\ gen = GenIdle /\ agg = AggIdle /\ call = CallIdle /\ top = TopIdle /\ tries = TriesIdle
  /\ loop = LoopIdle /\ preps = {} /\ resos = {}
  /\ fetches = [FetchesIdle EXCEPT !.mount = TRUE]
  /\ playoff = {} /\ final = FinalIdle /\ timers = TimersIdle
  /\ events = 0 /\ last = "init"

Same == UNCHANGED <<gen, agg, call, tries, top>>

\* fetchTeamsOnly after its two requests settled: ok is false when a request
\* failed or the team list came back empty
fetchTeamsOnly(st, ok) ==
  IF ok
  THEN setStandings(setMatches(st, ApiFixtures), initialStandings([i \in 1..NumTeams |-> i]))
  ELSE setStandings(setMatches(st, <<>>), <<>>)

\* the fetch issued by the page's mount effect returns; a return after the
\* intro screen counts as an event
MountFetchReturn(ok) ==
  /\ fetches.mount
  /\ store.phase = "INTRO" \/ events < MaxEvents
  /\ events' = IF store.phase = "INTRO" THEN events ELSE events + 1
  /\ fetches' = [fetches EXCEPT !.mount = FALSE]
  /\ Commit(fetchTeamsOnly(store, ok), TRUE, loop, preps, resos, playoff,
            final, timers, "fetchTeamsOnly")
  /\ Same

\* the Start button of the intro screen (disabled while isLoadingData)
handleStart ==
  /\ store.phase = "INTRO"
  /\ ~fetches.start
  /\ fetches' = [fetches EXCEPT !.start = TRUE]
  /\ last' = "handleStart"
  /\ UNCHANGED <<store, loop, preps, resos, playoff, final, timers, events>>
  /\ Same

\* handleStart after its await: first match, startSimulation, LEAGUE
handleStartReturn(ok) ==
  /\ fetches.start
  /\ fetches' = [fetches EXCEPT !.start = FALSE]
  /\ LET s1 == fetchTeamsOnly(store, ok)
         s2 == IF /\ Len(s1.matches) > 0 /\ s1.currentMatchIndex = 0
                  /\ ~IsMatch(s1.currentMatch)
               THEN setCurrentMatch(s1, s1.matches[1]) ELSE s1
     IN  Commit(setPhase(startSimulation(s2), "LEAGUE"), TRUE, loop, preps,
                resos, playoff, final, timers, "handleStartReturn")
  /\ UNCHANGED events /\ Same

\* ----------------------------------------------------------- user inputs
UserInput(n, matchesSet, op) ==
  /\ events < MaxEvents
  /\ events' = events + 1
  /\ Commit(n, matchesSet, loop, preps, resos, playoff, final, timers, op)
  /\ UNCHANGED fetches /\ Same

\* the play/pause button of the controls and the Space key
TogglePlay ==
  UserInput(IF store.isPlaying THEN pauseSimulation(store)
            ELSE resumeSimulation(store), FALSE, "togglePlay")

SpeedClick ==
  /\ store.phase # "INTRO"
  /\ \E s \in {1, 2} : UserInput(setSpeed(store, s), FALSE, "setSpeed")

SkipToPlayoffsClick ==
  /\ store.phase = "LEAGUE"
  /\ UserInput(skipToPlayoffs(store), FALSE, "skipToPlayoffs")

SkipToFinalClick ==
  /\ store.phase \in {"LEAGUE", "PLAYOFFS"}
  /\ UserInput(skipToFinal(store), FALSE, "skipToFinal")

ResetClick ==
  /\ store.phase # "INTRO"
  /\ UserInput(reset(store), TRUE, "reset")

\* ------------------------------------------------------------ prepareMatch
\* Variant of PartialResult in which the toss draws continue the sequence
\* after the two draws of the resolution instead of restarting it.
PartialResultOwnDraws(match) ==
  LET s1 == seededRandom(seededRandom(seededRandom(match.id)))
      s2 == seededRandom(s1)
  IN  [NoResultPayload EXCEPT
         !.present = TRUE,
         !.toss_winner_id = IF DrawBelowHalf(s1) THEN match.home_team_id
                            ELSE match.away_team_id,
         !.toss_decision = IF DrawBelowSixTenths(s2) THEN "bat" ELSE "bowl"]

\* partialResult: the toss drawn from the match id, the rest still empty
PartialResult(match) ==
  LET s1 == seededRandom(match.id)
      s2 == seededRandom(s1)
  IN  [NoResultPayload EXCEPT
         !.present = TRUE,
         !.toss_winner_id = IF DrawBelowHalf(s1) THEN match.home_team_id
                            ELSE match.away_team_id,
         !.toss_decision = IF DrawBelowSixTenths(s2) THEN "bat" ELSE "bowl"]

PreparedMatch(match, p) ==
  [match EXCEPT !.prediction_data = [present |-> TRUE, home_win_probability |-> p],
                !.home_win_probability = p,
                !.result = PartialResult(match)]

\* the .then callback of prepareMatch in the league effect
PrepareThen(st, updatedMatch) ==
  LET existingMatch == At(st.matches, st.currentMatchIndex)
  IN  IF existingMatch.completed THEN st
      ELSE setCurrentMatch(
             setMatches(st, ArrayAssign(st.matches, st.currentMatchIndex,
                                        updatedMatch)), updatedMatch)

PrepStep(c, ds, n, matchesSet, lp, op) ==
  /\ Commit(n, matchesSet, lp, (preps \ {c}) \cup ds,
            resos, playoff, final, timers, op)
  /\ UNCHANGED <<fetches, events>> /\ Same

\* the prediction arrives: the match is written to the store with its
\* prediction and toss, the overlay opens at its first stage
PrepFetchOk ==
  \E c \in preps, p \in Probs :
    /\ c.pc = "fetch"
    /\ LET updatedMatch == PreparedMatch(c.match, p)
           s1 == setIsPreparingMatch(store, FALSE)
           s2 == setCurrentMatch(
                   setMatches(s1, ArrayAssign(s1.matches, s1.currentMatchIndex,
                                              updatedMatch)), updatedMatch)
           s3 == setPreMatchStage(startPreMatchSequence(s2), "toss")
       IN  PrepStep(c, {Fresh(preps \ {c}, [c EXCEPT !.pc = "toss",
                                       !.upd = updatedMatch, !.k = 1])},
                    s3, TRUE, loop, "prepareMatch")

\* the prediction request fails: prepareMatch returns the match as it was
PrepFetchFail ==
  \E c \in preps :
    /\ c.pc = "fetch"
    /\ LET s1 == setIsPreparingMatch(store, FALSE)
           existingMatch == At(s1.matches, s1.currentMatchIndex)
       IN  PrepStep(c, {}, PrepareThen(s1, c.match),
                    ~existingMatch.completed,
                    [loop EXCEPT !.isProcessingRef = FALSE],
                    IF last = "prepareMatchFailed" THEN "prepareMatchFailedAgain"
                    ELSE "prepareMatchFailed")

\* runPreMatchSequence: the next stage after a wait
PrepStage ==
  \E c \in preps :
    /\ c.pc \in {"toss", "lineup-team1", "lineup-team2"}
    /\ LET next == CASE c.pc = "toss" -> "lineup-team1"
                     [] c.pc = "lineup-team1" -> "lineup-team2"
                     [] c.pc = "lineup-team2" -> "complete"
       IN  PrepStep(c, {Fresh(preps \ {c}, [c EXCEPT !.pc = next, !.k = 1])},
                    setPreMatchStage(store, next), FALSE, loop, "preMatchStage")

\* the sequence ends: the overlay closes and the .then callback runs
PrepDone ==
  \E c \in preps :
    /\ c.pc = "complete"
    /\ LET s1 == completePreMatchSequence(store)
           existingMatch == At(s1.matches, s1.currentMatchIndex)
       IN  PrepStep(c, {}, PrepareThen(s1, c.upd),
                    ~existingMatch.completed,
                    [loop EXCEPT !.isProcessingRef = FALSE], "prepareMatchDone")

\* ------------------------------------------- the resolution timer callback
homeWinProbOf(m) ==
  IF m.prediction_data.home_win_probability = 0 THEN DefaultHomeWinProb
  ELSE m.prediction_data.home_win_probability

\* Variant of ExistingToss in which the stored toss is not passed on.
ExistingTossDropped(result) == NoToss

\* existingTossResult as the callback passes it to the generator
ExistingToss(result) ==
  IF result.present /\ result.toss_winner_id # NoTeam
  THEN [present |-> TRUE, toss_winner_id |-> result.toss_winner_id,
        toss_decision |-> result.toss_decision]
  ELSE NoToss

\* Variant of ResolvedMatch in which winner_id is read from the generated
\* result instead of the winner drawn before the team lookup.
ResolvedMatchWinnerFromResult(matchToUpdate, m, winnerId, noResult, matchResult) ==
  [matchToUpdate EXCEPT
     !.completed = TRUE,
     !.winner_id = IF matchResult.present THEN matchResult.winner_id ELSE NoTeam,
     !.no_result = noResult,
     !.home_score =
       IF ~matchResult.present THEN Undef
       ELSE IF matchResult.first_innings.team_id = m.home_team_id
       THEN matchResult.first_innings.runs ELSE matchResult.second_innings.runs,
     !.away_score =
       IF ~matchResult.present THEN Undef
       ELSE IF matchResult.first_innings.team_id = m.away_team_id
       THEN matchResult.first_innings.runs ELSE matchResult.second_innings.runs,
     !.result = matchResult]

\* updatedMatch of the callback; matchResult.present is false where the
\* callback leaves matchResult undefined
ResolvedMatch(matchToUpdate, m, winnerId, noResult, matchResult) ==
  [matchToUpdate EXCEPT
     !.completed = TRUE, !.winner_id = winnerId, !.no_result = noResult,
     !.home_score =
       IF ~matchResult.present THEN Undef
       ELSE IF matchResult.first_innings.team_id = m.home_team_id
       THEN matchResult.first_innings.runs ELSE matchResult.second_innings.runs,
     !.away_score =
       IF ~matchResult.present THEN Undef
       ELSE IF matchResult.first_innings.team_id = m.away_team_id
       THEN matchResult.first_innings.runs ELSE matchResult.second_innings.runs,
     !.result = matchResult]

\* matchResult for a decided match: generated when both teams are found in
\* the fetched team list, undefined otherwise
ResolveResult(m, matchToUpdate, determinedWinner, found) ==
  IF found
  THEN generateRealisticMatchResult(m.home_team_id, m.away_team_id,
         homeWinProbOf(m), 100 - homeWinProbOf(m), determinedWinner, 0, m.id,
         ExistingToss(matchToUpdate.result))
  ELSE NoResultPayload

\* seededRandom() < 0.02, the first draw of the callback
IsNoResultDraw(m) == DrawBelowTwoPercent(seededRandom(m.id))

\* seededRandom() * 100 < homeWinProb, the second draw of the callback
DeterminedWinner(m) ==
  IF DrawTimes100Below(seededRandom(seededRandom(m.id)), homeWinProbOf(m))
  THEN "home" ELSE "away"

WinnerIdOf(m, determinedWinner) ==
  IF determinedWinner = "home" THEN m.home_team_id ELSE m.away_team_id

nextMatchIndex(idx, len) == IF idx < len - 1 THEN idx + 1 ELSE idx

\* finalLatestMatches.map(...) of the callback
WithResolved(ms, idx, updatedMatch) ==
  [i \in 1..Len(ms) |->
     IF ms[i].completed THEN ms[i]
     ELSE IF i = idx + 1 /\ ms[i].id = updatedMatch.id THEN updatedMatch
     ELSE ms[i]]

determinePlayoffTeams(st) ==
  [st EXCEPT !.playoffTeams =
     [i \in 1..Min2(4, Len(st.standings)) |-> st.standings[i].team_id]]

ResoIdle ==
  [determinedWinner |-> "none", m |-> NullMatch, speedMultiplier |-> 1, k |-> 1,
   idx |-> 0, pc |-> "raf",
   updatedMatch |-> NullMatch, matchToUpdate |-> NullMatch, len |-> 0]

Quiet == UNCHANGED <<fetches, events>> /\ Same

\* Variant of IdMismatch in which the ids are not compared.
IdMismatchIgnored(found, resolved) == FALSE

\* matchToUpdate.id !== matchWithPrediction.id at timer expiry,
\* finalMatchToUpdate.id !== updatedMatch.id before the commit
IdMismatch(found, resolved) == found.id # resolved.id

\* the match timer expires: the callback asks for an animation frame
TimerFire ==
  /\ loop.timerRef.pending
  /\ LET rs == {c \in resos : c.pc # "raf"}
     IN  NoRender([loop EXCEPT !.timerRef = TimerIdle], preps,
                  rs \cup {Fresh(rs, [ResoIdle EXCEPT !.m = loop.timerRef.m,
                     !.speedMultiplier = loop.timerRef.speedMultiplier])},
                  "matchTimer")
  /\ Quiet

\* the frame runs the callback up to its first await
ResolveRun ==
  \E c \in resos :
    /\ c.pc = "raf"
    /\ LET latestMatches == store.matches
           latestMatchIndex == store.currentMatchIndex
           atIndex == At(latestMatches, latestMatchIndex)
           matchToUpdate == IF IsMatch(atIndex) THEN atIndex ELSE c.m
           rest == resos \ {c}
           off == [loop EXCEPT !.isProcessingRef = FALSE]
           d == [c EXCEPT !.idx = latestMatchIndex, !.len = Len(latestMatches),
                          !.matchToUpdate = matchToUpdate, !.k = 1]
       IN  IF matchToUpdate.completed
           THEN IF StandingsThrows(latestMatches, store.standings)
                THEN NoRender(off, preps, rest, "resolveThrew")
                ELSE Commit(updateMatchComplete(store,
                              updateStandings(latestMatches, store.standings),
                              nextMatchIndex(latestMatchIndex, Len(latestMatches)),
                              latestMatches),
                            TRUE, off, preps, rest, playoff, final, timers,
                            "resolveExisting")
           ELSE IF IdMismatch(matchToUpdate, c.m)
           THEN NoRender(off, preps, rest, "resolveMismatch")
           ELSE IF IsNoResultDraw(c.m)
           THEN NoRender(loop, preps,
                  rest \cup {Fresh(rest, [d EXCEPT !.pc = "exit",
                     !.updatedMatch = ResolvedMatch(matchToUpdate, c.m, NoTeam,
                                                    TRUE, NoResultPayload)])},
                  "resolveDraw")
           ELSE NoRender(loop, preps,
                  rest \cup {Fresh(rest, [d EXCEPT !.pc = "teams",
                     !.determinedWinner = DeterminedWinner(c.m)])},
                  "resolveDraw")
    /\ Quiet

\* teamsAPI.getAll() settles; found: the request succeeded and lists both teams
ResolveTeams ==
  \E c \in resos, found \in BOOLEAN :
    /\ c.pc = "teams"
    /\ LET rest == resos \ {c}
           winnerId == WinnerIdOf(c.m, c.determinedWinner)
           matchResult == ResolveResult(c.m, c.matchToUpdate,
                                        c.determinedWinner, found)
       IN  NoRender(loop, preps,
             rest \cup {Fresh(rest, [c EXCEPT !.pc = "exit", !.k = 1,
                !.updatedMatch = ResolvedMatch(c.matchToUpdate, c.m, winnerId,
                                               FALSE, matchResult)])},
             "resolveTeams")
    /\ Quiet

\* after the 300 ms exit animation: the final checks and the commit
ResolveCommit ==
  \E c \in resos :
    /\ c.pc = "exit"
    /\ LET finalLatestMatches == store.matches
           finalMatchToUpdate == At(finalLatestMatches, c.idx)
           finalUpdatedMatches ==
             WithResolved(finalLatestMatches, c.idx, c.updatedMatch)
           rest == resos \ {c}
           off == [loop EXCEPT !.isProcessingRef = FALSE]
           last_ == c.idx >= c.len - 1
       IN  IF \/ ~IsMatch(finalMatchToUpdate)
              \/ finalMatchToUpdate.completed
              \/ IdMismatch(finalMatchToUpdate, c.updatedMatch)
           THEN NoRender(off, preps, rest, "resolveSkipped")
           ELSE IF StandingsThrows(finalUpdatedMatches, store.standings)
           THEN NoRender(off, preps, rest, "resolveThrew")
           ELSE Commit(updateMatchComplete(store,
                         updateStandings(finalUpdatedMatches, store.standings),
                         nextMatchIndex(c.idx, Len(finalLatestMatches)),
                         finalUpdatedMatches),
                       TRUE, off, preps,
                       IF last_
                       THEN rest \cup {Fresh(rest, [c EXCEPT !.pc = "settle",
                                                             !.k = 1])}
                       ELSE rest,
                       playoff, final, timers, "resolveCommit")
    /\ Quiet

\* after the 800 ms standings animation of the last league match
ResolveSettle ==
  \E c \in resos :
    /\ c.pc = "settle"
    /\ Commit(determinePlayoffTeams(setPhase(store, "QUALIFICATION")), FALSE,
              loop, preps, resos \ {c}, playoff, final, timers, "resolveSettle")
    /\ Quiet

\* ---------------------------------------------------------------- playoffs
Screen(n, pl, fn, tm, op) ==
  /\ Commit(n, FALSE, loop, preps, resos, pl, fn, tm, op)
  /\ Quiet

\* A 10 s timer that a render of PlayoffQualification armed expires:
\* onComplete (handleQualificationComplete)
handleQualificationComplete ==
  /\ timers.qualification > 0
  /\ Screen(setPhase([store EXCEPT !.currentPlayoffPhase = "semifinal_1"],
                     "PLAYOFFS"),
            playoff, final, [timers EXCEPT !.qualification = @ - 1],
            "handleQualificationComplete")

\* PlayoffMatch.predictMatch settles: the winner is drawn with Math.random
PlayoffPredicted ==
  \E c \in playoff, w \in {1, 2} :
    /\ c.pc = "predict"
    /\ playoff' = (playoff \ {c}) \cup
         {Fresh(playoff \ {c},
                [c EXCEPT !.pc = "timer", !.k = 1,
                          !.winner = IF w = 1 THEN c.team1 ELSE c.team2])}
    /\ last' = "predictMatch"
    /\ UNCHANGED <<store, loop, preps, resos, final, timers>>
    /\ Quiet

\* the handler that a PlayoffMatch run received as onComplete
PlayoffHandler(st, c) ==
  LET loser == IF c.winner = c.team1 THEN c.team2 ELSE c.team1
  IN  CASE c.fixture = "semifinal_1" ->
             [st EXCEPT !.semifinal1Winner = c.winner,
                        !.semifinal1Loser = loser,
                        !.currentPlayoffPhase = "semifinal_2"]
        [] c.fixture = "semifinal_2" ->
             [st EXCEPT !.semifinal2Winner = c.winner,
                        !.semifinal2Loser = loser,
                        !.currentPlayoffPhase = "eliminator"]
        [] c.fixture = "eliminator" ->
             [st EXCEPT !.eliminatorWinner = c.winner,
                        !.currentPlayoffPhase = "final"]

\* the result timers of a PlayoffMatch run expire: onComplete(winner, loser)
PlayoffComplete ==
  \E c \in playoff :
    /\ c.pc = "timer"
    /\ Screen(PlayoffHandler(store, c), playoff \ {c}, final, timers,
              "playoffComplete")

\* FinalMatch.predictMatch settles and writes winnerRef
FinalPredicted ==
  \E r \in final.runs, w \in {1, 2} :
    /\ final' = [final EXCEPT !.runs = @ \ {r},
                              !.winnerRef = IF w = 1 THEN r.team1 ELSE r.team2]
    /\ last' = "finalPredicted"
    /\ UNCHANGED <<store, loop, preps, resos, playoff, timers>>
    /\ Quiet

\* FinalMatch's 15 s timer: onComplete(winnerRef.current) if it is set
FinalTimer ==
  /\ final.timer
  /\ IF final.winnerRef = NoTeam
     THEN /\ final' = [final EXCEPT !.timer = FALSE]
          /\ last' = "finalTimer"
          /\ UNCHANGED <<store, loop, preps, resos, playoff, timers>>
          /\ Quiet
     ELSE Screen(setPhase([store EXCEPT !.champion = final.winnerRef],
                          "CHAMPION"),
                 playoff, [final EXCEPT !.timer = FALSE], timers,
                 "handleFinalComplete")

\* ---------------------------------------------------------- closing screens
ChampionTimer ==
  /\ timers.champion > 0
  /\ Screen(setPhase(store, "TROPHY"), playoff, final,
            [timers EXCEPT !.champion = @ - 1], "handleChampionComplete")

TrophyTimer ==
  /\ timers.trophy > 0
  /\ Screen(setPhase(store, "REWIND"), playoff, final,
            [timers EXCEPT !.trophy = @ - 1], "handleTrophyComplete")

\* SeasonRewind shows its last moment and arms the onComplete timer
RewindLastMoment ==
  /\ store.phase = "REWIND"
  /\ ~timers.rewindAtEnd
  /\ timers' = [timers EXCEPT !.rewindAtEnd = TRUE, !.rewind = @ + 1]
  /\ last' = "rewindMoment"
  /\ UNCHANGED <<store, loop, preps, resos, playoff, final>>
  /\ Quiet

RewindTimer ==
  /\ timers.rewind > 0
  /\ Screen(setPhase(store, "ANALYTICS"), playoff, final,
            [timers EXCEPT !.rewind = @ - 1], "handleRewindComplete")

\* From the page load to the end of the league stage.
Next ==
  \/ \E ok \in BOOLEAN : MountFetchReturn(ok)
  \/ handleStart
  \/ \E ok \in BOOLEAN : handleStartReturn(ok)
  \/ TogglePlay \/ SpeedClick \/ SkipToPlayoffsClick \/ SkipToFinalClick
  \/ ResetClick
  \/ PrepFetchOk \/ PrepFetchFail \/ PrepStage \/ PrepDone
  \/ TimerFire \/ ResolveRun \/ ResolveTeams \/ ResolveCommit \/ ResolveSettle

Spec == Init /\ [][Next]_vars

\* The same stage left alone by the user after Start and with no late
\* response, with the event loop running every continuation that is ready:
\* a request in flight settles (either way), a timer that is armed expires.
InitLive ==
  /\ store = InitialStore
  /\ gen = GenIdle /\ agg = AggIdle /\ call = CallIdle /\ top = TopIdle /\ tries = TriesIdle
  /\ loop = LoopIdle /\ preps = {} /\ resos = {}
  /\ fetches = [FetchesIdle EXCEPT !.mount = TRUE]
  /\ playoff = {} /\ final = FinalIdle /\ timers = TimersIdle
  /\ events = MaxEvents /\ last = "init"

NextLive ==
  \/ \E ok \in BOOLEAN : MountFetchReturn(ok)
  \/ handleStart
  \/ \E ok \in BOOLEAN : handleStartReturn(ok)
  \/ PrepFetchOk \/ PrepFetchFail \/ PrepStage \/ PrepDone
  \/ TimerFire \/ ResolveRun \/ ResolveTeams \/ ResolveCommit \/ ResolveSettle

\* requests in flight settle; armed timers and requested frames run
FairLive ==
  /\ WF_vars(\/ \E ok \in BOOLEAN : MountFetchReturn(ok)
             \/ \E ok \in BOOLEAN : handleStartReturn(ok)
             \/ PrepFetchOk \/ PrepFetchFail \/ ResolveTeams)
  /\ WF_vars(PrepStage \/ PrepDone \/ TimerFire \/ ResolveRun
             \/ ResolveCommit \/ ResolveSettle)

SpecLive == InitLive /\ [][NextLive]_vars /\ FairLive

\* ======================================================================
\* SpecResolve: the resolution callback's computation run more than once
\* on one prepared match
\* ======================================================================
MaxAttempts == 2

\* result of the stored match: none, or the toss written by prepareMatch,
\* or any other toss
ResolveStoredResults(match) ==
  {NoResultPayload, PartialResult(match)} \cup
  {[NoResultPayload EXCEPT !.present = TRUE, !.toss_winner_id = t,
                           !.toss_decision = d] :
     t \in {match.home_team_id, match.away_team_id}, d \in {"bat", "bowl"}}

\* the callback from the first draw to updatedMatch; found: teamsAPI.getAll()
\* succeeded and lists both teams
ResolveOutcome(m, matchToUpdate, found) ==
  IF IsNoResultDraw(m)
  THEN ResolvedMatch(matchToUpdate, m, NoTeam, TRUE, NoResultPayload)
  ELSE ResolvedMatch(matchToUpdate, m, WinnerIdOf(m, DeterminedWinner(m)),
         FALSE, ResolveResult(m, matchToUpdate, DeterminedWinner(m), found))

InitResolve ==
  /\ store = InitialStore
  /\ AppQuiet
  /\ gen = GenIdle /\ agg = AggIdle /\ call = CallIdle /\ top = TopIdle
  /\ \E i \in (1..MaxMatchId) \cup {FixtureId(2)}, p \in {0, 30, 50, 60, 70, 100} :
       \E r \in ResolveStoredResults(LeagueMatch(i, GenTeams[1], GenTeams[2])) :
         tries = [TriesIdle EXCEPT !.m =
           [PreparedMatch(LeagueMatch(i, GenTeams[1], GenTeams[2]), p)
              EXCEPT !.result = r]]

\* one more attempt on the same stored match
ResolveAttempt ==
  \E found \in BOOLEAN :
    /\ Len(tries.out) < MaxAttempts
    /\ tries' = [tries EXCEPT
         !.out = Append(@, ResolveOutcome(tries.m, tries.m, found)),
         !.lookup = Append(@, IF IsNoResultDraw(tries.m) THEN "skipped"
                              ELSE IF found THEN "found" ELSE "failed")]
    /\ UNCHANGED <<store, gen, agg, call, top, appVars>>

NextResolve == ResolveAttempt

SpecResolve == InitResolve /\ [][NextResolve]_vars

\* ======================================================================
\* SpecPlayoffs: the page from the qualification screen to the analytics
\* dashboard, after a league stage that ran undisturbed
\* ======================================================================
\* the store after league match i was prepared with home win probability p,
\* resolved and committed, and so on to the last league match
RECURSIVE LeaguePlayed(_, _, _)
LeaguePlayed(st, i, p) ==
  IF i >= Len(st.matches) THEN st
  ELSE LET m == PreparedMatch(st.matches[i + 1], p)
           s1 == completePreMatchSequence(
                   PrepareThen(startPreMatchSequence(
                     setCurrentMatch(
                       setMatches(st, ArrayAssign(st.matches, i, m)), m)), m))
           updatedMatch == ResolveOutcome(m, m, TRUE)
           finalUpdatedMatches == WithResolved(s1.matches, i, updatedMatch)
       IN  LeaguePlayed(
             updateMatchComplete(s1,
               updateStandings(finalUpdatedMatches, s1.standings),
               nextMatchIndex(i, Len(s1.matches)), finalUpdatedMatches),
             i + 1, p)

\* the store when the qualification screen opens
QualificationStore(p) ==
  LET s1 == fetchTeamsOnly(fetchTeamsOnly(InitialStore, TRUE), TRUE)
      s2 == setPhase(startSimulation(setCurrentMatch(s1, s1.matches[1])),
                     "LEAGUE")
  IN  determinePlayoffTeams(setPhase(LeaguePlayed(s2, 0, p), "QUALIFICATION"))

InitPlayoffs ==
  /\ \E p \in Probs : store = QualificationStore(p)
  /\ gen = GenIdle /\ agg = AggIdle /\ call = CallIdle /\ top = TopIdle /\ tries = TriesIdle
  /\ loop = LoopIdle /\ preps = {} /\ resos = {}
  /\ fetches = FetchesIdle
  /\ playoff = {} /\ final = FinalIdle
  /\ timers = [TimersIdle EXCEPT !.qualification = 1]
  /\ events = 0 /\ last = "resolveSettle"

NextPlayoffs ==
  \/ handleQualificationComplete
  \/ PlayoffPredicted \/ PlayoffComplete
  \/ FinalPredicted \/ FinalTimer
  \/ ChampionTimer \/ TrophyTimer \/ RewindLastMoment \/ RewindTimer
  \/ TogglePlay \/ SpeedClick \/ SkipToFinalClick \/ ResetClick

SpecPlayoffs == InitPlayoffs /\ [][NextPlayoffs]_vars

\* ======================================================================
\* SpecTop: updateTopPerformers applied to bounded match lists
\* ======================================================================
MaxTopMatches == 3

\* one list entry folded into playerStats (a Map, kept in insertion order):
\* r is predicted_runs || 0 of a run scorer, w is predicted_wickets || 0 of
\* a wicket taker, the other figure is 0
AddStatLastOnly(stats, id, r, w) ==
  IF \E i \in 1..Len(stats) : stats[i].player_id = id
  THEN [i \in 1..Len(stats) |->
          IF stats[i].player_id = id
          THEN [stats[i] EXCEPT !.runs = IF r > 0 THEN r ELSE @,
                                !.wickets = IF w > 0 THEN w ELSE @]
          ELSE stats[i]]
  ELSE Append(stats, [runs |-> r, wickets |-> w, player_id |-> id])
AddStat(stats, id, r, w) ==
  IF \E i \in 1..Len(stats) : stats[i].player_id = id
  THEN [i \in 1..Len(stats) |->
          IF stats[i].player_id = id
          THEN [stats[i] EXCEPT !.runs = @ + r, !.wickets = @ + w]
          ELSE stats[i]]
  ELSE Append(stats, [runs |-> r, wickets |-> w, player_id |-> id])

\* allScorers.forEach / allBowlers.forEach over [...home, ...away]
RECURSIVE AddEntries(_, _, _)
AddEntries(stats, entries, isRuns) ==
  IF entries = <<>> THEN stats
  ELSE LET e == Head(entries)
           v == IF e.predicted = Undef THEN 0 ELSE e.predicted
       IN  AddEntries(AddStat(stats, e.player_id, IF isRuns THEN v ELSE 0,
                              IF isRuns THEN 0 ELSE v),
                      Tail(entries), isRuns)

\* the forEach over allMatches.filter(m => m.completed && m.prediction_data)
RECURSIVE PlayerStats(_, _)
PlayerStats(stats, allMatches) ==
  IF allMatches = <<>> THEN stats
  ELSE LET match == Head(allMatches)
           pred == match.prediction_data
           s1 == IF pred.top_3_run_scorers.present
                 THEN AddEntries(stats, pred.top_3_run_scorers.home \o
                                 pred.top_3_run_scorers.away, TRUE)
                 ELSE stats
           s2 == IF pred.top_3_wicket_takers.present
                 THEN AddEntries(s1, pred.top_3_wicket_takers.home \o
                                 pred.top_3_wicket_takers.away, FALSE)
                 ELSE s1
       IN  PlayerStats(IF match.completed /\ pred.present THEN s2 ELSE stats,
                       Tail(allMatches))

\* what the three reduce calls compare
ScoreOf(p, key) ==
  CASE key = "runs" -> p.runs
    [] key = "wickets" -> p.wickets
    [] key = "mvp" -> p.runs + p.wickets * 25

\* Variant of ReduceBest in which a later player with an equal score wins.
RECURSIVE ReduceBestLatest(_, _, _)
ReduceBestLatest(best, players, key) ==
  IF players = <<>> THEN best
  ELSE ReduceBestLatest(IF ScoreOf(Head(players), key) >= ScoreOf(best, key)
                        THEN Head(players) ELSE best,
                        Tail(players), key)

\* allPlayers.reduce((max, p) => score(p) > score(max) ? p : max, allPlayers[0])
RECURSIVE ReduceBest(_, _, _)
ReduceBest(best, players, key) ==
  IF players = <<>> THEN best
  ELSE ReduceBest(IF ScoreOf(Head(players), key) > ScoreOf(best, key)
                  THEN Head(players) ELSE best,
                  Tail(players), key)

updateTopPerformers(allMatches) ==
  LET allPlayers == TheOne({PlayerStats(<<>>, allMatches)})
      topRunScorer == ReduceBest(allPlayers[1], allPlayers, "runs")
      topWicketTaker == ReduceBest(allPlayers[1], allPlayers, "wickets")
      mvp == ReduceBest(allPlayers[1], allPlayers, "mvp")
  IN  IF allPlayers = <<>>
      THEN [present |-> TRUE, mvp |-> [present |-> FALSE],
            orangeCap |-> [present |-> FALSE], purpleCap |-> [present |-> FALSE]]
      ELSE [present |-> TRUE,
            mvp |-> [present |-> TRUE, runs |-> mvp.runs,
                     wickets |-> mvp.wickets, player_id |-> mvp.player_id,
                     score |-> mvp.runs + mvp.wickets * 25],
            orangeCap |-> [present |-> TRUE,
                           runs |-> topRunScorer.runs,
                           player_id |-> topRunScorer.player_id],
            purpleCap |-> [present |-> TRUE,
                           wickets |-> topWicketTaker.wickets,
                           player_id |-> topWicketTaker.player_id]]

\* a match of the list: open or completed, without prediction data or with
\* one of a few predictions (a slice may be missing, a side may be empty, a
\* figure may be missing)
TopMatches ==
  LET E(id, v) == [player_id |-> id, predicted |-> v]
      Slice(h, a) == [present |-> TRUE, home |-> h, away |-> a]
      NoSlice == [present |-> FALSE, home |-> <<>>, away |-> <<>>]
      P(rs, wk) == [present |-> TRUE, top_3_run_scorers |-> rs,
                    top_3_wicket_takers |-> wk]
      predictions ==
        {[present |-> FALSE, top_3_run_scorers |-> NoSlice,
          top_3_wicket_takers |-> NoSlice],
         P(Slice(<<E(1, 40), E(2, 60)>>, <<E(3, 35)>>), Slice(<<E(3, 2)>>, <<>>)),
         P(Slice(<<E(1, 55)>>, <<E(3, 50)>>), Slice(<<E(2, 3)>>, <<E(3, 1)>>)),
         P(Slice(<<E(3, 15)>>, <<E(1, 10)>>), NoSlice),
         P(NoSlice, Slice(<<E(2, 1)>>, <<E(1, Undef)>>)),
         P(Slice(<<E(2, Undef)>>, <<>>), Slice(<<>>, <<E(3, 4)>>))}
  IN  {[completed |-> c, prediction_data |-> p] :
         c \in BOOLEAN, p \in predictions}

InitTop ==
  /\ store = InitialStore
  /\ AppQuiet
  /\ gen = GenIdle /\ agg = AggIdle /\ call = CallIdle /\ tries = TriesIdle
  /\ \E l \in UNION {[1..n -> TopMatches] : n \in 0..MaxTopMatches} :
       top = [TopIdle EXCEPT !.matches = l]

TopCall ==
  /\ ~top.called
  /\ top' = [top EXCEPT !.called = TRUE,
                        !.out = updateTopPerformers(top.matches)]
  /\ UNCHANGED <<store, gen, agg, call, tries, appVars>>

NextTop == TopCall

SpecTop == InitTop /\ [][NextTop]_vars

\* The same stage left alone by the user: a request in flight settles, a
\* timer that is armed expires.
NextPlayoffsLive ==
  \/ handleQualificationComplete
  \/ PlayoffPredicted \/ PlayoffComplete
  \/ FinalPredicted \/ FinalTimer
  \/ ChampionTimer \/ TrophyTimer \/ RewindLastMoment \/ RewindTimer

FairPlayoffs ==
  /\ WF_vars(handleQualificationComplete)
  /\ WF_vars(PlayoffPredicted) /\ WF_vars(PlayoffComplete)
  /\ WF_vars(FinalPredicted) /\ WF_vars(FinalTimer)
  /\ WF_vars(ChampionTimer) /\ WF_vars(TrophyTimer)
  /\ WF_vars(RewindLastMoment) /\ WF_vars(RewindTimer)

SpecPlayoffsLive == InitPlayoffs /\ [][NextPlayoffsLive]_vars /\ FairPlayoffs

\* ======================================================================
\* Properties
\* ======================================================================

\* C6: every MatchResult produced by generateRealisticMatchResult has
\* first-innings runs in [100,250], both wicket counts in [0,10], both overs
\* values in (0,20], second-innings runs above the first innings when the
\* side batting second is the winner and below it when the side batting
\* first is the winner.
GenScorePlausible ==
  gen.called =>
    LET r == gen.out IN
    /\ r.first_innings.runs >= 100 /\ r.first_innings.runs <= 250
    /\ r.first_innings.wickets \in 0..10
    /\ r.second_innings.wickets \in 0..10
    /\ r.first_innings.overs10 > 0 /\ r.first_innings.overs10 <= 200
    /\ r.second_innings.overs10 > 0 /\ r.second_innings.overs10 <= 200
    /\ (r.second_innings.team_id = r.winner_id
          => r.second_innings.runs > r.first_innings.runs)
    /\ (r.first_innings.team_id = r.winner_id
          => r.second_innings.runs < r.first_innings.runs)

\* a defended win generated from a stored toss
GenDefendedWinSeen ==
  /\ gen.called
  /\ gen.existingToss.present
  /\ gen.out.first_innings.team_id = gen.out.winner_id
  /\ gen.out.second_innings.runs < gen.out.first_innings.runs

\* the order named by the ranking rule: points, then net run rate, then wins
RanksAbove(a, b) ==
  \/ a.points > b.points
  \/ /\ a.points = b.points
     /\ FracLess(b.net_run_rate, a.net_run_rate)
  \/ /\ a.points = b.points
     /\ FracEq(a.net_run_rate, b.net_run_rate)
     /\ a.wins > b.wins

\* C8: every standings array returned by the aggregator is ordered by
\* (points desc, net run rate desc, wins desc) with no adjacent pair out of
\* order, and the position fields are 1..n in array order.
AggRankingOrdered ==
  agg.calls >= 1 =>
    /\ \A i \in 1..(Len(agg.out) - 1) : ~RanksAbove(agg.out[i + 1], agg.out[i])
    /\ \A i \in 1..Len(agg.out) : agg.out[i].position = i

\* an output in which points decide one adjacent pair and net run rate another
AggRankedByPointsAndNrrSeen ==
  /\ agg.calls >= 1
  /\ \E i \in 1..(Len(agg.out) - 1) : agg.out[i].points > agg.out[i + 1].points
  /\ \E i \in 1..(Len(agg.out) - 1) :
       /\ agg.out[i].points = agg.out[i + 1].points
       /\ FracLess(agg.out[i + 1].net_run_rate, agg.out[i].net_run_rate)

\* C9: updateStandings called again on the same match list returns the same
\* rows in the same order with the same positions, points and net run
\* rates, whether the store was left untouched or its standings were
\* replaced by the previous output.
AggIdempotent == agg.calls >= 2 => agg.out = agg.prev

\* a second call made after the store took the first output, on a table
\* holding two rows the comparator ties
AggRecomputedAfterCommitSeen ==
  /\ agg.calls >= 2
  /\ agg.committed
  /\ store.standings = agg.prev
  /\ \E i \in 1..(Len(agg.out) - 1) :
       /\ ~RanksAbove(agg.out[i], agg.out[i + 1])
       /\ ~RanksAbove(agg.out[i + 1], agg.out[i])

\* C2: every change of phase other than the one made by reset goes to a
\* later phase in the order INTRO, FIXTURE_REVEAL, LEAGUE, QUALIFICATION,
\* PLAYOFFS, FINAL, CHAMPION, TROPHY, REWIND, ANALYTICS.
PhaseOnlyForward ==
  [][(store'.phase # store.phase /\ last' # "reset")
       => PhaseRank(store'.phase) > PhaseRank(store.phase)]_vars

UserOps == {"togglePlay", "setSpeed", "skipToPlayoffs", "skipToFinal", "reset"}

\* C4: while isPaused is true, no step other than a user input completes a
\* league match, changes currentMatchIndex, or changes phase,
\* currentPlayoffPhase or preMatchStage.
PausedNothingProgresses ==
  [][(store.isPaused /\ store'.isPaused /\ last' \notin UserOps)
       => /\ \A i \in 1..Len(store.matches) :
               /\ i <= Len(store'.matches)
               /\ store'.matches[i].completed => store.matches[i].completed
          /\ store'.currentMatchIndex = store.currentMatchIndex
          /\ store'.phase = store.phase
          /\ store'.currentPlayoffPhase = store.currentPlayoffPhase
          /\ store'.preMatchStage = store.preMatchStage]_vars

\* C7: in every reachable state every row of the store's standings has
\* points = 2 * wins + no_result.
StandingsPointsRule ==
  \A i \in 1..Len(store.standings) :
    store.standings[i].points =
      2 * store.standings[i].wins + store.standings[i].no_result

\* the store holds standings with a winner's row and a no-result row
StandingsWithWinAndNoResultSeen ==
  /\ \E i \in 1..Len(store.standings) : store.standings[i].wins > 0
  /\ \E i \in 1..Len(store.standings) : store.standings[i].no_result > 0

\* C3: when the prediction fetch for the current league match has failed,
\* then, the simulation playing and not paused, that match is eventually
\* marked completed.
FetchFailureStillCompletes ==
  \A i \in 0..(MaxLeague - 1) :
    [](/\ last \in {"prepareMatchFailed", "prepareMatchFailedAgain"}
       /\ store.currentMatchIndex = i
       => <>(\/ At(store.matches, i).completed
             \/ ~(store.isPlaying /\ ~store.isPaused)))

\* C1: under any sequence of setMatches and updateMatchComplete calls, a
\* match that is stored as completed at an index is stored unchanged at that
\* index after the next call (so after every later call): the first committed
\* record is the one retained.
StoreCompletedRetained ==
  [][\A i \in 0..(Len(store.matches) - 1) :
       At(store.matches, i).completed =>
         At(store'.matches, i) = At(store.matches, i)]_vars

\* a call that carried a different completed record for an index whose
\* stored match was already completed, and the store after it
StoreOverwriteAttemptSeen ==
  /\ call.op \in {"setMatches", "updateMatchComplete"}
  /\ \E i \in 0..(Len(call.before) - 1) :
       /\ At(call.before, i).completed
       /\ At(call.matches, i).completed
       /\ At(call.matches, i) # At(call.before, i)
       /\ At(call.matches, i).id = At(call.before, i).id
       /\ At(store.matches, i) = At(call.before, i)

QualifiedAt(i) ==
  IF i < Len(store.playoffTeams) THEN store.playoffTeams[i + 1] ELSE NoTeam

\* C10: the bracket is wired Semifinal 1 = playoffTeams[0] v playoffTeams[1],
\* Semifinal 2 = playoffTeams[2] v playoffTeams[3], Eliminator = loser of
\* Semifinal 1 v winner of Semifinal 2, Final = winner of Semifinal 1 v winner
\* of the Eliminator, and the champion is the winner of the Final: the
\* Semifinal 1 winner or the Eliminator winner (stated for a store that holds
\* a qualifying set, that is, not after reset).
PlayoffBracketWired ==
  Len(store.playoffTeams) >= 4 =>
  /\ store.semifinal1Winner # NoTeam =>
       {store.semifinal1Winner, store.semifinal1Loser} =
         {QualifiedAt(0), QualifiedAt(1)}
  /\ store.semifinal2Winner # NoTeam =>
       {store.semifinal2Winner, store.semifinal2Loser} =
         {QualifiedAt(2), QualifiedAt(3)}
  /\ store.eliminatorWinner # NoTeam =>
       store.eliminatorWinner \in {store.semifinal1Loser, store.semifinal2Winner}
  /\ final.mounted =>
       /\ final.team1 = store.semifinal1Winner
       /\ final.team2 = store.eliminatorWinner
  /\ store.champion # NoTeam =>
       store.champion \in {store.semifinal1Winner, store.eliminatorWinner}

\* C11: once the phase is ANALYTICS, every step other than reset leaves it
\* ANALYTICS, whatever timers and completion callbacks of earlier phases are
\* still pending.
AnalyticsIsTerminal ==
  [][(store.phase = "ANALYTICS" /\ last' # "reset")
       => store'.phase = "ANALYTICS"]_vars

\* C12: immediately after reset every field of the store equals its value
\* in the freshly created store.
ResetRestoresInitialStore ==
  [][last' = "reset" => store' = InitialStore]_vars


\* C13: the object returned by updateTopPerformers names as orangeCap a
\* player whose predicted runs, summed over the run-scorer entries of all
\* completed matches with prediction data, are the greatest, as purpleCap a
\* player whose summed predicted wickets are the greatest, and as mvp a player
\* whose runs + 25 * wickets are the greatest; the totals it reports are those
\* sums; all three are null when no completed match carries an entry.
TopPerformersAreSeasonMaxima ==
  top.called =>
    LET ms == top.matches
        Slices(i, isRuns) ==
          IF isRuns THEN ms[i].prediction_data.top_3_run_scorers
          ELSE ms[i].prediction_data.top_3_wicket_takers
        Entries(isRuns) ==
          {<<i, side, j>> \in (1..Len(ms)) \X {"home", "away"} \X (1..3) :
             /\ ms[i].completed /\ ms[i].prediction_data.present
             /\ Slices(i, isRuns).present
             /\ j <= Len(Slices(i, isRuns)[side])}
        EntryAt(x, isRuns) == Slices(x[1], isRuns)[x[2]][x[3]]
        RECURSIVE Sum(_, _, _)
        Sum(S, id, isRuns) ==
          IF S = {} THEN 0
          ELSE LET x == CHOOSE y \in S : TRUE
                   e == EntryAt(x, isRuns)
               IN  (IF e.player_id = id /\ e.predicted # Undef
                    THEN e.predicted ELSE 0) + Sum(S \ {x}, id, isRuns)
        Runs(id) == Sum(Entries(TRUE), id, TRUE)
        Wickets(id) == Sum(Entries(FALSE), id, FALSE)
        ids == {EntryAt(x, TRUE).player_id : x \in Entries(TRUE)} \cup
               {EntryAt(x, FALSE).player_id : x \in Entries(FALSE)}
        o == top.out
    IN  IF ids = {}
        THEN ~o.orangeCap.present /\ ~o.purpleCap.present /\ ~o.mvp.present
        ELSE /\ o.orangeCap.present /\ o.orangeCap.player_id \in ids
             /\ o.orangeCap.runs = Runs(o.orangeCap.player_id)
             /\ \A id \in ids : Runs(id) <= o.orangeCap.runs
             /\ o.purpleCap.present /\ o.purpleCap.player_id \in ids
             /\ o.purpleCap.wickets = Wickets(o.purpleCap.player_id)
             /\ \A id \in ids : Wickets(id) <= o.purpleCap.wickets
             /\ o.mvp.present /\ o.mvp.player_id \in ids
             /\ o.mvp.runs = Runs(o.mvp.player_id)
             /\ o.mvp.wickets = Wickets(o.mvp.player_id)
             /\ o.mvp.score = o.mvp.runs + 25 * o.mvp.wickets
             /\ \A id \in ids : Runs(id) + 25 * Wickets(id) <= o.mvp.score

\* three completed matches in which player 1 is predicted 40, 55 and 10 runs:
\* the orange cap reports player 1 with 105
TopThreeMatchTotalSeen ==
  /\ top.called
  /\ Len(top.matches) = 3
  /\ \A i \in 1..3 : top.matches[i].completed /\ top.matches[i].prediction_data.present
  /\ top.out.orangeCap.present
  /\ top.out.orangeCap.player_id = 1
  /\ top.out.orangeCap.runs = 105
  /\ top.out.mvp.present /\ top.out.mvp.player_id # 1


\* the row of team t in a standings list, all zero when the list has none
StandingOf(standings, t) ==
  IF \E i \in 1..Len(standings) : standings[i].team_id = t
  THEN standings[CHOOSE i \in 1..Len(standings) : standings[i].team_id = t]
  ELSE StandingRow(t, 0, ZeroStats, 0, 0)

PlayoffsReachChampion ==
  (store.phase = "PLAYOFFS" /\ Len(store.playoffTeams) = 4)
    ~> (/\ store.semifinal1Winner # NoTeam /\ store.semifinal2Winner # NoTeam
        /\ store.eliminatorWinner # NoTeam /\ store.champion # NoTeam
        /\ store.phase = "CHAMPION")


\* C16: for any league match at most one resolution callback that has yet to
\* commit is in flight.
OneResolutionInFlight ==
  \A c, d \in resos :
    (/\ c.pc \in {"raf", "teams", "exit"} /\ d.pc \in {"raf", "teams", "exit"}
     /\ c.m.id = d.m.id)
      => c = d


\* C17: prepareMatch is never started for a league match while a preparation
\* is in flight, and the step in which a preparation of a match ends does
\* not start another preparation of the same match.
PreparedOnce ==
  [][/\ Cardinality(preps') <= 1
     /\ \A c \in preps, d \in preps' :
          (last' \in {"prepareMatchFailed", "prepareMatchFailedAgain",
                      "prepareMatchDone"}
           /\ d.pc = "fetch") => c.match.id # d.match.id]_vars


\* C18: while the phase is not LEAGUE, a step of a continuation of the league
\* loop (a preparation, the match timer, a resolution callback and its
\* delayed steps) leaves every field of the store as it was.
LeagueContinuationsInert ==
  [][(/\ store.phase # "LEAGUE"
      /\ last' \in {"prepareMatch", "prepareMatchFailed",
                    "prepareMatchFailedAgain", "preMatchStage",
                    "prepareMatchDone", "matchTimer", "resolveDraw",
                    "resolveTeams", "resolveExisting", "resolveMismatch",
                    "resolveSkipped", "resolveThrew", "resolveCommit",
                    "resolveSettle"})
       => store' = store]_vars


\* C19: a step of prepareMatch or of its .then callback keeps the length of
\* the match list and changes no entry other than the one at the current
\* index, and that one only if it holds the same match, not yet completed.
PreparationWritesOwnMatch ==
  [][last' \in {"prepareMatch", "prepareMatchDone", "prepareMatchFailed",
                "prepareMatchFailedAgain"}
       => /\ Len(store'.matches) = Len(store.matches)
          /\ \A i \in 1..Len(store.matches) :
               store'.matches[i] # store.matches[i]
                 => /\ i = store.currentMatchIndex + 1
                    /\ store'.matches[i].id = store.matches[i].id
                    /\ ~store.matches[i].completed]_vars


\* C20: whenever the match list of the store holds a completed league match,
\* every row of the store's standings shows the matches played, wins, losses,
\* no-results and points that the completed league matches of that list give
\* its team.
StandingsMatchMatchList ==
  (\E i \in 1..Len(store.matches) : IsCompletedLeague(store.matches[i]))
    => \A j \in 1..Len(store.standings) :
         LET row == store.standings[j]
             stats == TeamStatsOf(row.team_id,
                        SelectSeq(store.matches, IsCompletedLeague),
                        Len(SelectSeq(store.matches, IsCompletedLeague)))
         IN  /\ row.matches_played = stats.matches
             /\ row.wins = stats.wins /\ row.losses = stats.losses
             /\ row.no_result = stats.no_result
             /\ row.points = stats.wins * 2 + stats.no_result


\* C21: when a resolution callback marks the match at (0-based) index i
\* completed, i is the store's currentMatchIndex at that moment, every match
\* below i is already completed, and the commit sets currentMatchIndex to
\* i + 1, or leaves it at i when i is the last index.
LeagueCompletesInOrder ==
  [][\A i \in 1..Len(store.matches) :
       (/\ last' = "resolveCommit"
        /\ Len(store'.matches) = Len(store.matches)
        /\ ~store.matches[i].completed /\ store'.matches[i].completed)
       => /\ i - 1 = store.currentMatchIndex
          /\ \A j \in 1..(i - 1) : store.matches[j].completed
          /\ store'.currentMatchIndex =
               IF i < Len(store.matches) THEN i ELSE i - 1]_vars


\* C22: when the resolution timer of a match is started, the match carries
\* its prediction and toss in the store, no preparation of it is in flight
\* and the pre-match overlay is closed.
PreparedBeforeResolved ==
  [][(~loop.timerRef.pending /\ loop'.timerRef.pending)
       => LET m == loop'.timerRef.m
          IN  /\ m.prediction_data.present /\ m.result.present
              /\ At(store'.matches, store'.currentMatchIndex) = m
              /\ \A c \in preps' : c.match.id # m.id
              /\ ~store'.showPreMatchOverlay
              /\ store'.preMatchStage = "null"]_vars


\* C23: every resolution of a prepared match with home win probability p
\* (0 <= p <= 100) is a no-result iff the first draw of the LCG seeded with
\* the match id is below 0.02, and otherwise the home team wins iff the
\* second draw times 100 is below p; all resolutions of one match agree on
\* the winner.
SeededDrawDecides ==
  \A k \in 1..Len(tries.out) :
    LET m == tries.m
        p == m.prediction_data.home_win_probability
        s1 == seededRandom(m.id)
        s2 == seededRandom(s1)
        o == tries.out[k]
    IN  /\ o.no_result <=> (100 * s1 < 2 * LcgMod)
        /\ ~o.no_result =>
             (o.winner_id = m.home_team_id <=> (100 * s2 < p * LcgMod))
        /\ ~o.no_result => o.winner_id \in {m.home_team_id, m.away_team_id}
        /\ o.winner_id = tries.out[1].winner_id


\* C24: the toss that prepareMatch stores with a match is derived from the
\* LCG seeded with the match id: the toss winner is the home team iff the
\* first draw is below 0.5 (the away team otherwise), and the decision is
\* 'bat' iff the second draw is below 0.6 ('bowl' otherwise).
TossFromSeed ==
  \A id \in 1..(MaxMatchId + 8), p \in {0, 30, 50, 70, 100} :
    tries.m = PreparedMatch(LeagueMatch(id, GenTeams[1], GenTeams[2]), p)
      => LET s1 == (id * LcgMul + LcgInc) % LcgMod
             s2 == seededRandom(s1)
             toss == tries.m.result
         IN  /\ toss.present
             /\ toss.toss_winner_id =
                  (IF 2 * s1 < LcgMod THEN GenTeams[1] ELSE GenTeams[2])
             /\ toss.toss_decision =
                  (IF 10 * s2 < 6 * LcgMod THEN "bat" ELSE "bowl")
             /\ tries.m.prediction_data.present
             /\ tries.m.prediction_data.home_win_probability = p

\* a prepared match whose toss went to the away team, which chose to bowl
TossAwayBowlSeen ==
  /\ tries.m = PreparedMatch(LeagueMatch(11, GenTeams[1], GenTeams[2]), 70)
  /\ tries.m.result.toss_winner_id = GenTeams[2]
  /\ tries.m.result.toss_decision = "bowl"
  /\ Len(tries.out) >= 1


\* C25: a resolved match that has a result payload carries in it the toss
\* winner and the toss decision stored with the match at preparation, and
\* the team of its first innings is the toss winner iff the decision was
\* 'bat'.
TossKeptAndBattingOrder ==
  \A k \in 1..Len(tries.out) :
    LET stored == tries.m.result
        res == tries.out[k].result
    IN  (tries.out[k].completed /\ res.present)
          => /\ (stored.present /\ stored.toss_winner_id # NoTeam)
                  => /\ res.toss_winner_id = stored.toss_winner_id
                     /\ res.toss_decision = stored.toss_decision
             /\ res.toss_winner_id \in {tries.m.home_team_id, tries.m.away_team_id}
             /\ (res.first_innings.team_id = res.toss_winner_id)
                  <=> (res.toss_decision = "bat")
             /\ res.second_innings.team_id # res.first_innings.team_id

\* a match resolved with a payload whose stored toss was not the one the
\* seed would give: away team won the toss, chose to bowl, home bats first
StoredTossReusedSeen ==
  /\ Len(tries.out) >= 1
  /\ tries.out[1].result.present
  /\ tries.m.result.present
  /\ tries.m.result.toss_winner_id = tries.m.away_team_id
  /\ tries.m.result.toss_decision = "bowl"
  /\ tries.m.result # PartialResult(tries.m)
  /\ tries.out[1].result.first_innings.team_id = tries.m.home_team_id


\* C26: when the team lookup of a resolution fails, the match is completed
\* with the winner drawn from the seeded LCG and with scores of both sides in
\* [150, 200), the winner's score strictly above the loser's.
LookupFailureFallbackScore ==
  \A k \in 1..Len(tries.out) :
    tries.lookup[k] = "failed"
      => LET o == tries.out[k]
             winnerScore == IF o.winner_id = o.home_team_id
                            THEN o.home_score ELSE o.away_score
             loserScore == IF o.winner_id = o.home_team_id
                           THEN o.away_score ELSE o.home_score
         IN  /\ o.completed /\ ~o.no_result
             /\ o.winner_id = WinnerIdOf(tries.m, DeterminedWinner(tries.m))
             /\ o.home_score >= 150 /\ o.home_score < 200
             /\ o.away_score >= 150 /\ o.away_score < 200
             /\ winnerScore > loserScore


PlayoffPhasesOnceInOrder ==
  [][LET rank(p) == CASE p = "semifinal_1" -> 1 [] p = "semifinal_2" -> 2
                      [] p = "eliminator" -> 3 [] p = "final" -> 4
                      [] OTHER -> 0
         kept(a, b) == a # NoTeam => b = a
     IN  (last' \notin UserOps /\ Len(store.playoffTeams) = 4) =>
           /\ \/ store'.currentPlayoffPhase = store.currentPlayoffPhase
              \/ rank(store'.currentPlayoffPhase)
                   = rank(store.currentPlayoffPhase) + 1
           /\ kept(store.semifinal1Winner, store'.semifinal1Winner)
           /\ kept(store.semifinal1Loser, store'.semifinal1Loser)
           /\ kept(store.semifinal2Winner, store'.semifinal2Winner)
           /\ kept(store.semifinal2Loser, store'.semifinal2Loser)
           /\ kept(store.eliminatorWinner, store'.eliminatorWinner)]_vars


\* C29: whenever the phase is PLAYOFFS, currentPlayoffPhase is set and
\* playoffTeams holds the teams at positions 1 to 4 of the standings, in
\* that order.
PlayoffsHaveTopFour ==
  store.phase = "PLAYOFFS" =>
    /\ store.currentPlayoffPhase # "null"
    /\ Len(store.playoffTeams) = 4
    /\ Len(store.standings) >= 4
    /\ \A i \in 1..4 : store.playoffTeams[i] = store.standings[i].team_id


\* C30: in every step other than reset, each match of the stored list is
\* still in the list afterwards, still has prediction_data if it had it,
\* and is still completed if it was.
MatchRecordOnlyForward ==
  [][last' # "reset" =>
       \A i \in 1..Len(store.matches) :
         \E j \in 1..Len(store'.matches) :
           /\ store'.matches[j].id = store.matches[i].id
           /\ store.matches[i].prediction_data.present
                => store'.matches[j].prediction_data.present
           /\ store.matches[i].completed => store'.matches[j].completed]_vars


\* C31: every row the aggregator returns carries, for its team, the number
\* of completed league matches it played, won, lost and had abandoned
\* (matches_played = wins + losses + no_result), and net_run_rate is runs
\* scored per over faced minus runs conceded per over bowled over those
\* matches (0 for a side with no overs); open and non-league matches count
\* for nothing.
AggCountsCompletedLeague ==
  agg.calls >= 1 =>
    LET ms == store.matches
        own(t) == {i \in 1..Len(ms) :
                     /\ ms[i].completed /\ ms[i].match_type = "league"
                     /\ t \in {ms[i].home_team_id, ms[i].away_team_id}}
        scored(t, i) == IF ms[i].home_team_id = t THEN ms[i].home_score
                        ELSE ms[i].away_score
        conceded(t, i) == IF ms[i].home_team_id = t THEN ms[i].away_score
                          ELSE ms[i].home_score
        RECURSIVE Total(_, _, _)
        Total(t, k, batting) ==
          IF k = 0 THEN <<0, 0>>
          ELSE LET p == Total(t, k - 1, batting)
                   s == IF batting THEN scored(t, k) ELSE conceded(t, k)
               IN  IF k \in own(t) /\ s # Undef
                   THEN <<p[1] + s, p[2] + OversPerInnings>> ELSE p
        rate(x) == IF x[2] > 0 THEN x ELSE <<0, 1>>
    IN  \A j \in 1..Len(agg.out) :
          LET r == agg.out[j]
              t == r.team_id
              f == rate(Total(t, Len(ms), TRUE))
              a == rate(Total(t, Len(ms), FALSE))
          IN  /\ r.matches_played = Cardinality(own(t))
              /\ r.wins = Cardinality({i \in own(t) :
                             ~ms[i].no_result /\ ms[i].winner_id = t})
              /\ r.losses = Cardinality({i \in own(t) :
                               /\ ~ms[i].no_result
                               /\ ms[i].winner_id \notin {NoTeam, t}})
              /\ r.no_result = Cardinality({i \in own(t) : ms[i].no_result})
              /\ r.matches_played = r.wins + r.losses + r.no_result
              /\ r.net_run_rate.num * (f[2] * a[2])
                   = (f[1] * a[2] - a[1] * f[2]) * r.net_run_rate.den

AggCountedBesideIgnoredMatchesSeen ==
  /\ agg.calls >= 1
  /\ \E j \in 1..Len(agg.out), i1, i2 \in 1..Len(store.matches) :
       LET r == agg.out[j]
           m1 == store.matches[i1]
           m2 == store.matches[i2]
       IN  /\ r.wins = 1 /\ r.matches_played = 1 /\ r.net_run_rate.num # 0
           /\ m1.completed /\ m1.match_type = "final"
           /\ r.team_id \in {m1.home_team_id, m1.away_team_id}
           /\ ~m2.completed
           /\ r.team_id \in {m2.home_team_id, m2.away_team_id}


\* C32: a call made while the store holds no standings returns one row for
\* each team id that is home or away side of a match of the list, open
\* matches included, ranked 1..n; if the list's only completed match is a
\* league match won by one side, that side has 2 points and every other
\* row 0.
AggDerivesTeamsFromMatches ==
  [][(agg'.calls = agg.calls + 1 /\ store.standings = <<>>) =>
       LET ms == store.matches
           out == agg'.out
           teams == {ms[i].home_team_id : i \in 1..Len(ms)}
                      \cup {ms[i].away_team_id : i \in 1..Len(ms)}
           done == {i \in 1..Len(ms) : ms[i].completed}
       IN  /\ Len(out) = Cardinality(teams)
           /\ {out[j].team_id : j \in 1..Len(out)} = teams
           /\ \A j \in 1..Len(out) : out[j].position = j
           /\ \A i \in done :
                (/\ done = {i} /\ ms[i].match_type = "league"
                 /\ ~ms[i].no_result /\ ms[i].winner_id # NoTeam)
                  => \A j \in 1..Len(out) :
                       out[j].points
                         = IF out[j].team_id = ms[i].winner_id THEN 2 ELSE 0]_vars

AggSixTeamsOneResultSeen ==
  /\ agg.calls >= 1
  /\ store.standings = <<>>
  /\ Len(agg.out) = 6
  /\ agg.out[1].points = 2 /\ agg.out[1].team_id = 2
  /\ \A j \in 2..6 : agg.out[j].points = 0


\* C33: the rows a call returns, their order and their positions are those
\* the aggregator returns for the same match list when the store holds no
\* standings: the standings the store held before the call make no
\* difference.
AggIndependentOfStoreStandings ==
  [][agg'.calls = agg.calls + 1
       => agg'.out = updateStandings(store.matches, <<>>)]_vars


\* C34: whenever the league loop schedules a delay (a pre-match stage, the
\* match timer, the 300 ms card exit, the 800 ms standings settle), the
\* speed multiplier that divides its base duration is the store's
\* speedMultiplier at that moment.
DelaysUseCurrentSpeed ==
  [][/\ \A c \in preps' \ preps :
          c.pc \in {"toss", "lineup-team1", "lineup-team2", "complete"}
            => c.speedMultiplier = store'.speedMultiplier
     /\ \A c \in resos' \ resos :
          c.pc \in {"exit", "settle"}
            => c.speedMultiplier = store'.speedMultiplier
     /\ (loop'.timerRef.pending /\ loop'.timerRef # loop.timerRef)
          => loop'.timerRef.speedMultiplier = store'.speedMultiplier]_vars


\* C35: the pre-match overlay is shown, or a pre-match stage is set, only
\* while the phase is LEAGUE.
PreMatchOnlyInLeague ==
  (store.preMatchStage # "null" \/ store.showPreMatchOverlay)
    => store.phase = "LEAGUE"


\* C36: among the players that share the greatest total (runs for the
\* orange cap, wickets for the purple cap, runs + 25 * wickets for the MVP)
\* the one named is the one whose first entry comes first in aggregation
\* order: matches in list order, within a match the run-scorer lists before
\* the wicket-taker lists, home before away.
TopTieGoesToFirstInserted ==
  top.called =>
    LET ms == top.matches
        Slices(i, isRuns) ==
          IF isRuns THEN ms[i].prediction_data.top_3_run_scorers
          ELSE ms[i].prediction_data.top_3_wicket_takers
        Entries ==
          {<<i, isRuns, side, j>> \in
               (1..Len(ms)) \X BOOLEAN \X {"home", "away"} \X (1..3) :
             /\ ms[i].completed /\ ms[i].prediction_data.present
             /\ Slices(i, isRuns).present
             /\ j <= Len(Slices(i, isRuns)[side])}
        EntryAt(x) == Slices(x[1], x[2])[x[3]][x[4]]
        When(x) == x[1] * 16 + (IF x[2] THEN 0 ELSE 8)
                     + (IF x[3] = "home" THEN 0 ELSE 4) + x[4]
        RECURSIVE Sum(_, _, _)
        Sum(S, id, isRuns) ==
          IF S = {} THEN 0
          ELSE LET x == CHOOSE y \in S : TRUE
                   e == EntryAt(x)
               IN  (IF e.player_id = id /\ x[2] = isRuns /\ e.predicted # Undef
                    THEN e.predicted ELSE 0) + Sum(S \ {x}, id, isRuns)
        ids == {EntryAt(x).player_id : x \in Entries}
        Score(id, key) ==
          CASE key = "runs" -> Sum(Entries, id, TRUE)
            [] key = "wickets" -> Sum(Entries, id, FALSE)
            [] key = "mvp" -> Sum(Entries, id, TRUE) + 25 * Sum(Entries, id, FALSE)
        Inserted(id) ==
          CHOOSE n \in {When(x) : x \in Entries} :
            /\ \E x \in Entries : EntryAt(x).player_id = id /\ When(x) = n
            /\ \A x \in Entries : EntryAt(x).player_id = id => n <= When(x)
        Leads(l, key) ==
          \A id \in ids :
            \/ Score(id, key) < Score(l, key)
            \/ Score(id, key) = Score(l, key) /\ Inserted(l) <= Inserted(id)
    IN  ids # {} =>
          /\ Leads(top.out.orangeCap.player_id, "runs")
          /\ Leads(top.out.purpleCap.player_id, "wickets")
          /\ Leads(top.out.mvp.player_id, "mvp")

\* players 2 and 3 both end on 3 wickets; player 3 took wickets first, but
\* player 2 was inserted first (as a run scorer) and holds the purple cap
TopTieOnWicketsSeen ==
  /\ top.called
  /\ Len(top.matches) = 2
  /\ \A i \in 1..2 : top.matches[i].completed
  /\ top.matches[1].prediction_data.present
  /\ top.matches[1].prediction_data.top_3_run_scorers.present
  /\ top.matches[1].prediction_data.top_3_run_scorers.home
       = <<[player_id |-> 1, predicted |-> 40], [player_id |-> 2, predicted |-> 60]>>
  /\ top.matches[1].prediction_data.top_3_wicket_takers.home
       = <<[player_id |-> 3, predicted |-> 2]>>
  /\ top.matches[2].prediction_data.present
  /\ top.matches[2].prediction_data.top_3_wicket_takers.present
  /\ top.matches[2].prediction_data.top_3_wicket_takers.home
       = <<[player_id |-> 2, predicted |-> 3]>>
  /\ top.matches[2].prediction_data.top_3_wicket_takers.away
       = <<[player_id |-> 3, predicted |-> 1]>>
  /\ top.out.purpleCap.player_id = 2
  /\ top.out.purpleCap.wickets = 3


\* ======================================================================
\* SpecPlayed: the league left alone by the user when the backend's fixture
\* list holds a fixture that already has a winner
\* ======================================================================
\* convertAPIMatchToSimulatorMatch: a fixture with a winner_id arrives
\* completed, with its winner and without scores or prediction data.
\* played: the backend has a winner for the second fixture
ApiFixturesPlayed(played) ==
  <<LeagueMatch(FixtureId(1), 1, 2),
    IF played
    THEN Completed(LeagueMatch(FixtureId(2), 3, 4), 3, Undef, Undef, FALSE)
    ELSE LeagueMatch(FixtureId(2), 3, 4),
    LeagueMatch(FixtureId(3), 1, 2)>>

fetchTeamsOnlyPlayed(st, ok, played) ==
  IF ok
  THEN setStandings(setMatches(st, ApiFixturesPlayed(played)),
                    initialStandings([i \in 1..NumTeams |-> i]))
  ELSE setStandings(setMatches(st, <<>>), <<>>)

MountFetchReturnPlayed(ok, played) ==
  /\ fetches.mount
  /\ store.phase = "INTRO"
  /\ fetches' = [fetches EXCEPT !.mount = FALSE]
  /\ Commit(fetchTeamsOnlyPlayed(store, ok, played), TRUE, loop, preps, resos,
            playoff, final, timers, "fetchTeamsOnly")
  /\ UNCHANGED events /\ Same

handleStartReturnPlayed(ok, played) ==
  /\ fetches.start
  /\ fetches' = [fetches EXCEPT !.start = FALSE]
  /\ LET s1 == fetchTeamsOnlyPlayed(store, ok, played)
         s2 == IF /\ Len(s1.matches) > 0 /\ s1.currentMatchIndex = 0
                  /\ ~IsMatch(s1.currentMatch)
               THEN setCurrentMatch(s1, s1.matches[1]) ELSE s1
     IN  Commit(setPhase(startSimulation(s2), "LEAGUE"), TRUE, loop, preps,
                resos, playoff, final, timers, "handleStartReturn")
  /\ UNCHANGED events /\ Same

NextPlayed ==
  \/ \E ok, played \in BOOLEAN : MountFetchReturnPlayed(ok, played)
  \/ handleStart
  \/ \E ok, played \in BOOLEAN : handleStartReturnPlayed(ok, played)
  \/ PrepFetchOk \/ PrepFetchFail \/ PrepStage \/ PrepDone
  \/ TimerFire \/ ResolveRun \/ ResolveTeams \/ ResolveCommit \/ ResolveSettle

\* requests in flight settle; armed timers and requested frames run
FairPlayed ==
  /\ WF_vars(\/ \E ok, played \in BOOLEAN : MountFetchReturnPlayed(ok, played)
             \/ \E ok, played \in BOOLEAN : handleStartReturnPlayed(ok, played)
             \/ PrepFetchOk \/ PrepFetchFail \/ ResolveTeams)
  /\ WF_vars(PrepStage \/ PrepDone \/ TimerFire \/ ResolveRun
             \/ ResolveCommit \/ ResolveSettle)

SpecPlayed == InitLive /\ [][NextPlayed]_vars /\ FairPlayed

\* C37: in LEAGUE while playing and not paused, a match at currentMatchIndex
\* that is already completed in the store and is not the last match is
\* eventually left behind: currentMatchIndex advances past it.
CompletedFixtureSkipped ==
  \A i \in 0..(Len(ApiFixturesPlayed(TRUE)) - 2) :
    (/\ store.phase = "LEAGUE" /\ store.isPlaying /\ ~store.isPaused
     /\ store.currentMatchIndex = i
     /\ i < Len(store.matches) - 1
     /\ At(store.matches, i).completed)
    ~> (store.currentMatchIndex > i \/ store.phase # "LEAGUE")


\* C38: preparation and resolution draw from the same seed.  Where the
\* store holds the toss that prepareMatch wrote: a match that a resolution
\* declares a no-result has the home team as its stored toss winner, and a
\* match with home_win_probability <= 60 that a resolution gives to the
\* home team has the stored toss decision 'bat', before and after the
\* resolution.
TossDrawsAreResultDraws ==
  \A k \in 1..Len(tries.out) :
    LET m == tries.m
        o == tries.out[k]
    IN  (m.result = PartialResult(m))
        => /\ o.no_result => m.result.toss_winner_id = m.home_team_id
           /\ (/\ m.home_win_probability <= 60
               /\ ~o.no_result /\ o.winner_id = m.home_team_id)
              => /\ m.result.toss_decision = "bat"
                 /\ o.result.present => o.result.toss_decision = "bat"

\* a home win on a probability of 60 with the second draw above one half
HomeWinAtSixtyBatsSeen ==
  /\ Len(tries.out) > 0
  /\ tries.m.result = PartialResult(tries.m)
  /\ tries.m.home_win_probability = 60
  /\ ~DrawBelowHalf(seededRandom(seededRandom(tries.m.id)))
  /\ tries.out[1].winner_id = tries.m.home_team_id
  /\ tries.out[1].result.present
  /\ tries.out[1].result.toss_decision = "bat"


\* ======================================================================
\* SpecControls: the page under a sequence of play/pause toggles (button or
\* Space key), resets and restarts, each faster than the league's timers
\* and requests
\* ======================================================================
MaxControlOps == 6

ControlsInput(n, matchesSet, op) ==
  /\ events < MaxControlOps
  /\ events' = events + 1
  /\ Commit(n, matchesSet, loop, preps, resos, playoff, final, timers, op)
  /\ UNCHANGED fetches /\ Same

NextControls ==
  \/ \E ok \in BOOLEAN : MountFetchReturn(ok)
  \/ handleStart
  \/ \E ok \in BOOLEAN : handleStartReturn(ok)
  \/ ControlsInput(IF store.isPlaying THEN pauseSimulation(store)
                   ELSE resumeSimulation(store), FALSE, "togglePlay")
  \/ store.phase # "INTRO" /\ ControlsInput(reset(store), TRUE, "reset")

SpecControls == Init /\ [][NextControls]_vars

\* C39: isPlaying and isPaused are never both true, whatever the sequence of
\* startSimulation, pauseSimulation, resumeSimulation, reset and toggles.
NeverPlayingAndPaused == ~(store.isPlaying /\ store.isPaused)

\* paused for the second time, in the league, after a pause and a resume
PausedAgainAfterResumeSeen ==
  /\ store.phase = "LEAGUE" /\ events >= 3 /\ last = "togglePlay"
  /\ store.isPaused /\ ~store.isPlaying

====
